---------------------------- MODULE Spec2Model ----------------------------
(***************************************************************************)
(* A model of the league-enrichment pipeline of the sports database:       *)
(* enrich_leagues.py (name normalisation, source indices, matching, score  *)
(* fusion and tiering) and the single-source tier ladder of                *)
(* fetch_popularity.py.                                                    *)
(*                                                                         *)
(* Python evaluates the score arithmetic in IEEE-754 binary64.  The model  *)
(* keeps that arithmetic: a double is a sign, an exact natural mantissa    *)
(* and a binary exponent, and every operation rounds its exact result to   *)
(* 53 bits, ties to even.  Mantissas do not fit the model checker's        *)
(* integers, so naturals are little-endian sequences of 15-bit limbs.      *)
(***************************************************************************)
EXTENDS Integers, Sequences, FiniteSets, TLC

(***************************************************************************)
(* Arbitrary-precision naturals: <<>> is 0, no high zero limb.             *)
(***************************************************************************)
LimbBits == 15
Base == 2^LimbBits

Max2(a, b) == IF a >= b THEN a ELSE b
Min2(a, b) == IF a <= b THEN a ELSE b

RECURSIVE BigNorm(_)
BigNorm(a) ==
    IF a = <<>> THEN <<>>
    ELSE IF a[Len(a)] = 0 THEN BigNorm(SubSeq(a, 1, Len(a) - 1))
    ELSE a

RECURSIVE BigFromNat(_)
BigFromNat(n) ==
    IF n = 0 THEN <<>> ELSE <<n % Base>> \o BigFromNat(n \div Base)

\* Only for values known to fit a machine integer.
RECURSIVE BigToNat(_)
BigToNat(a) ==
    IF a = <<>> THEN 0 ELSE Head(a) + Base * BigToNat(Tail(a))

\* The limbs of a from the second on (none for 0), and its low limb.
BigRest(a) == IF a = <<>> THEN <<>> ELSE Tail(a)
BigLow(a) == IF a = <<>> THEN 0 ELSE Head(a)

\* Limb i of a, 0 beyond its length.
BigLimb(a, i) == IF i <= Len(a) THEN a[i] ELSE 0

\* The carry into limb i of a + b: a limb below i overflows and every limb
\* between that one and i is full.
BigCarry(a, b, i) ==
    \E j \in 1..(i - 1) :
        /\ BigLimb(a, j) + BigLimb(b, j) >= Base
        /\ \A k \in (j + 1)..(i - 1) : BigLimb(a, k) + BigLimb(b, k) = Base - 1

\* a + b, every limb from the limbs of a and b and the carry into it (no
\* recursion along the limbs).
BigAddLen(a, b, n) ==
    [i \in 1..n |->
        (BigLimb(a, i) + BigLimb(b, i) + (IF BigCarry(a, b, i) THEN 1 ELSE 0)) % Base]
        \o (IF BigCarry(a, b, n + 1) THEN <<1>> ELSE <<>>)

BigAdd(a, b) ==
    IF a = <<>> THEN b ELSE IF b = <<>> THEN a ELSE BigAddLen(a, b, Max2(Len(a), Len(b)))

\* a - b - c for a >= b + c, not normalised.
RECURSIVE BigSubB(_, _, _)
BigSubB(a, b, c) ==
    IF a = <<>> THEN <<>>
    ELSE LET d == Head(a) - BigLow(b) - c
         IN  <<(d + Base) % Base>> \o BigSubB(Tail(a), BigRest(b), IF d < 0 THEN 1 ELSE 0)

BigSub(a, b) == BigNorm(BigSubB(a, b, 0))

\* -1, 0 or 1 as a < b, a = b, a > b, comparing from the high limb down.
RECURSIVE BigCmpAt(_, _, _)
BigCmpAt(a, b, i) ==
    IF i = 0 THEN 0
    ELSE IF a[i] < b[i] THEN -1
    ELSE IF a[i] > b[i] THEN 1
    ELSE BigCmpAt(a, b, i - 1)

BigCmp(a, b) ==
    IF Len(a) < Len(b) THEN -1
    ELSE IF Len(a) > Len(b) THEN 1
    ELSE BigCmpAt(a, b, Len(a))

BigShiftLimbs(a, n) ==
    IF a = <<>> THEN <<>> ELSE [i \in 1..n |-> 0] \o a

\* a * k for a small k (k <= Base + 3 keeps every product in range), by
\* halves of a.
RECURSIVE BigMulSmallAt(_, _)
BigMulSmallHalves(a, k, h) ==
    BigAdd(BigMulSmallAt(SubSeq(a, 1, h), k),
           BigShiftLimbs(BigMulSmallAt(SubSeq(a, h + 1, Len(a)), k), h))
BigMulSmallAt(a, k) ==
    IF Len(a) = 1 THEN BigFromNat(a[1] * k) ELSE BigMulSmallHalves(a, k, Len(a) \div 2)

BigMulSmall(a, k) ==
    IF k = 0 \/ a = <<>> THEN <<>> ELSE IF k = 1 THEN a ELSE BigMulSmallAt(a, k)

\* a * b, by halves of b (the recursion stays logarithmic in its length).
RECURSIVE BigMul(_, _)
BigMulHalves(a, b, h) ==
    BigAdd(BigMul(a, SubSeq(b, 1, h)), BigShiftLimbs(BigMul(a, SubSeq(b, h + 1, Len(b))), h))
BigMul(a, b) ==
    IF a = <<>> \/ b = <<>> THEN <<>>
    ELSE IF Len(b) = 1 THEN BigMulSmall(a, b[1])
    ELSE BigMulHalves(a, b, Len(b) \div 2)

RECURSIVE BitLenSmall(_)
BitLenSmall(n) == IF n = 0 THEN 0 ELSE 1 + BitLenSmall(n \div 2)

BigBitLen(a) ==
    IF a = <<>> THEN 0 ELSE LimbBits * (Len(a) - 1) + BitLenSmall(a[Len(a)])

BigIsOdd(a) == a # <<>> /\ Head(a) % 2 = 1

BigShiftLeft(a, n) ==
    IF n = 0 THEN a
    ELSE BigShiftLimbs(BigMulSmall(a, 2^(n % LimbBits)), n \div LimbBits)

\* floor(a / k) for 0 < k < Base, from the high limb down; r is the running
\* remainder.
RECURSIVE BigDivSmallAt(_, _, _, _)
BigDivSmallAt(a, k, i, r) ==
    IF i = 0 THEN <<>>
    ELSE LET cur == r * Base + a[i]
         IN  BigDivSmallAt(a, k, i - 1, cur % k) \o <<cur \div k>>

BigDivSmall(a, k) ==
    IF k = 1 THEN a ELSE BigNorm(BigDivSmallAt(a, k, Len(a), 0))

BigShiftRight(a, n) ==
    IF n \div LimbBits >= Len(a) THEN <<>>
    ELSE BigDivSmall(SubSeq(a, (n \div LimbBits) + 1, Len(a)), 2^(n % LimbBits))

\* The quotient digit floor(r / d) for d <= r < d * Base, as <<digit, r - digit * d>>:
\* an estimate q from the leading bits of r and d, with t = q * d, is corrected
\* down while t > r and then up while t + d <= r.
RECURSIVE DigitUp(_, _, _, _)
DigitUp(r, d, q, t) ==
    IF BigCmp(BigAdd(t, d), r) <= 0
    THEN DigitUp(r, d, q + 1, BigAdd(t, d))
    ELSE <<q, BigSub(r, t)>>

RECURSIVE DigitDown(_, _, _, _)
DigitDown(r, d, q, t) ==
    IF BigCmp(t, r) = 1 THEN DigitDown(r, d, q - 1, BigSub(t, d)) ELSE DigitUp(r, d, q, t)

DigitEstimated(r, d, est) ==
    IF est = 0 THEN DigitUp(r, d, 0, <<>>) ELSE DigitDown(r, d, est, BigMulSmall(d, est))

QuotientDigit(r, d) ==
    LET s == Max2(0, BigBitLen(d) - LimbBits)
    IN  DigitEstimated(r, d, BigToNat(BigShiftRight(r, s)) \div BigToNat(BigShiftRight(d, s)))

\* <<floor(a / d), a mod d>> for d > 0: schoolbook long division from the high
\* limb a[i] down, q the quotient limbs found so far and r the remainder of the
\* limbs above i.  The digit is 0 while the running remainder is below d.
RECURSIVE BigDivModAt(_, _, _, _, _)
DivDigit(a, d, i, q, qt) == BigDivModAt(a, d, i - 1, <<qt[1]>> \o q, qt[2])
DivStep(a, d, i, q, cur) ==
    IF BigCmp(cur, d) < 0
    THEN BigDivModAt(a, d, i - 1, IF q = <<>> THEN q ELSE <<0>> \o q, cur)
    ELSE DivDigit(a, d, i, q, QuotientDigit(cur, d))
BigDivModAt(a, d, i, q, r) ==
    IF i = 0 THEN <<q, r>> ELSE DivStep(a, d, i, q, BigNorm(<<a[i]>> \o r))

BigDivMod(a, d) == BigDivModAt(a, d, Len(a), <<>>, <<>>)

\* b^n by repeated squaring (the recursion stays logarithmic in n); h is
\* b^(n \div 2), and 0 only for b = 0.
RECURSIVE BigPow(_, _)
PowSquare(b, n, h) ==
    IF h = <<>> THEN <<>>
    ELSE IF n % 2 = 1 THEN BigMul(BigMul(h, h), b)
    ELSE BigMul(h, h)
BigPow(b, n) == IF n = 0 THEN <<1>> ELSE PowSquare(b, n, BigPow(b, n \div 2))

(***************************************************************************)
(* binary64 values: (-1)^neg * m * 2^e, m a natural of at most 53 bits.    *)
(* Every value of the score arithmetic is far inside the normal range, so  *)
(* subnormals, infinities and NaN do not arise.                            *)
(***************************************************************************)
MantissaBits == 53

Float(neg, m, e) == [neg |-> neg /\ m # <<>>, m |-> m, e |-> e]
FZero == [neg |-> FALSE, m |-> <<>>, e |-> 0]

\* Round an exact m * 2^e to 53 bits, ties to even: q is m without its low s
\* bits, and the bits cut off are compared with one half.
RoundUp(neg, q, e, c) ==
    IF c = 1 \/ (c = 0 /\ BigIsOdd(q))
    THEN Float(neg, BigAdd(q, <<1>>), e)
    ELSE Float(neg, q, e)
RoundCut(neg, m, e, s, q) ==
    IF q = <<>> THEN FZero
    ELSE RoundUp(neg, q, e + s,
                 BigCmp(BigSub(m, BigShiftLeft(q, s)), BigShiftLeft(<<1>>, s - 1)))
RoundLen(neg, m, e, len) ==
    IF len <= MantissaBits THEN Float(neg, m, e)
    ELSE RoundCut(neg, m, e, len - MantissaBits, BigShiftRight(m, len - MantissaBits))
Round53(neg, m, e) == RoundLen(neg, m, e, BigBitLen(m))

\* float(n) for an integer of magnitude below 2^31: exact.
FloatOfInt(n) == Float(n < 0, BigFromNat(IF n < 0 THEN -n ELSE n), 0)

FMul(x, y) ==
    IF x.m = <<>> \/ y.m = <<>> THEN FZero
    ELSE Round53(x.neg # y.neg, BigMul(x.m, y.m), x.e + y.e)

\* x / y, which raises for y = 0: the quotient to at least 55 bits with a sticky bit for the
\* remainder below it, then rounded once.
DivSticky(neg, qr, e) ==
    IF qr[2] = <<>>
    THEN Round53(neg, BigShiftLeft(qr[1], 1), e)
    ELSE Round53(neg, BigAdd(BigShiftLeft(qr[1], 1), <<1>>), e)
DivScaled(x, y, k) ==
    IF k = 0
    THEN DivSticky(x.neg # y.neg, BigDivMod(x.m, y.m), x.e - y.e - 1)
    ELSE DivSticky(x.neg # y.neg, BigDivMod(BigShiftLeft(x.m, k), y.m), x.e - y.e - k - 1)
ZeroDivisionError == [error |-> "ZeroDivisionError"]
FDiv(x, y) ==
    IF y.m = <<>> THEN ZeroDivisionError
    ELSE IF x.m = <<>> THEN FZero
    ELSE DivScaled(x, y, Max2(0, MantissaBits + 2 + BigBitLen(y.m) - BigBitLen(x.m)))

\* x + y: the mantissas mx and my brought to the common exponent e.
AddAligned(xneg, yneg, mx, my, e) ==
    IF xneg = yneg THEN Round53(xneg, BigAdd(mx, my), e)
    ELSE IF BigCmp(mx, my) >= 0 THEN Round53(xneg, BigSub(mx, my), e)
    ELSE Round53(yneg, BigSub(my, mx), e)
AddAt(x, y, e) ==
    AddAligned(x.neg, y.neg, BigShiftLeft(x.m, x.e - e), BigShiftLeft(y.m, y.e - e), e)
FAdd(x, y) ==
    IF x.m = <<>> THEN y
    ELSE IF y.m = <<>> THEN x
    ELSE AddAt(x, y, Min2(x.e, y.e))

FIsPositive(x) == x.m # <<>> /\ ~x.neg

\* int(x): truncation toward zero.
Signed(neg, n) == IF neg THEN -n ELSE n
FTrunc(x) ==
    IF x.m = <<>> THEN 0
    ELSE IF x.e >= 0 THEN Signed(x.neg, BigToNat(BigShiftLeft(x.m, x.e)))
    ELSE Signed(x.neg, BigToNat(BigShiftRight(x.m, -x.e)))

\* A decimal literal num/den of the source, converted as Python's parser does:
\* to the nearest double.
FloatLiteral(num, den) == FDiv(FloatOfInt(num), FloatOfInt(den))

(***************************************************************************)
(* Bounds of the model.                                                    *)
(***************************************************************************)
\* wikipedia_monthly_views range over -1..MaxViews, google_trends_index over
\* -1..MaxIndex; a catalog holds at most MaxLeagues leagues.
MaxViews == 2
MaxIndex == 1
MaxLeagues == 2
\* The normalisation functions taken alone: arguments in -1..MaxValue.
MaxValue == 9
\* Names given to normalize_league_name: at most MaxNameLen characters.
MaxNameLen == 3

MaxMetricValue == Max2(Max2(MaxViews, MaxIndex), MaxValue)

(***************************************************************************)
(* Strings are sequences of one-character strings.                         *)
(***************************************************************************)
Chars == {"A", "a", "-", "_", " "}

\* str.lower() on one character.
LowerChar(c) ==
    CASE c = "A" -> "a"
      [] c = "B" -> "b"
      [] c = "C" -> "c"
      [] c = "D" -> "d"
      [] c = "E" -> "e"
      [] c = "F" -> "f"
      [] c = "G" -> "g"
      [] c = "H" -> "h"
      [] c = "I" -> "i"
      [] c = "J" -> "j"
      [] c = "K" -> "k"
      [] c = "L" -> "l"
      [] c = "M" -> "m"
      [] c = "N" -> "n"
      [] c = "O" -> "o"
      [] c = "P" -> "p"
      [] c = "Q" -> "q"
      [] c = "R" -> "r"
      [] c = "S" -> "s"
      [] c = "T" -> "t"
      [] c = "U" -> "u"
      [] c = "V" -> "v"
      [] c = "W" -> "w"
      [] c = "X" -> "x"
      [] c = "Y" -> "y"
      [] c = "Z" -> "z"
      [] OTHER -> c

Lower(s) == [i \in 1..Len(s) |-> LowerChar(s[i])]

\* str.replace(old, new) for a one-character old.
ReplaceChar(s, old, new) == [i \in 1..Len(s) |-> IF s[i] = old THEN new ELSE s[i]]

IsSpace(c) == c \in {" ", "\t", "\n"}

RECURSIVE LStrip(_)
LStrip(s) == IF s # <<>> /\ IsSpace(Head(s)) THEN LStrip(Tail(s)) ELSE s

RECURSIVE RStrip(_)
RStrip(s) ==
    IF s # <<>> /\ IsSpace(s[Len(s)]) THEN RStrip(SubSeq(s, 1, Len(s) - 1)) ELSE s

\* str.strip()
Strip(s) == RStrip(LStrip(s))

\* The same steps with the trim taken first: "-a" keeps a leading space.
normalize_trim_first(name) ==
    ReplaceChar(ReplaceChar(Lower(Strip(name)), "-", " "), "_", " ")

\* name.lower().replace("-", " ").replace("_", " ").strip()
normalize_league_name(name) ==
    Strip(ReplaceChar(ReplaceChar(Lower(name), "-", " "), "_", " "))

\* a in b, but with the empty string found nowhere.
IsNonEmptySubstring(a, b) ==
    a # <<>> /\ \E i \in 1..(Len(b) - Len(a) + 1) : SubSeq(b, i, i + Len(a) - 1) = a

\* a in b
IsSubstring(a, b) ==
    \E i \in 1..(Len(b) - Len(a) + 1) : SubSeq(b, i, i + Len(a) - 1) = a

\* The suffix anywhere in s, not only at its end.
ContainsSuffix(s, suffix) == IsSubstring(suffix, s)

\* s.endswith(suffix)
EndsWith(s, suffix) ==
    Len(s) >= Len(suffix) /\ SubSeq(s, Len(s) - Len(suffix) + 1, Len(s)) = suffix

(***************************************************************************)
(* The two tier ladders.                                                   *)
(***************************************************************************)
\* The fused ladder with the thresholds of the single-source ladder.
calculate_tier_single_source(score) ==
    IF score >= 80 THEN "A"
    ELSE IF score >= 60 THEN "B"
    ELSE IF score >= 40 THEN "C"
    ELSE "D"

\* The fused ladder with strict comparisons.
calculate_tier_strict(score) ==
    IF score > 75 THEN "A"
    ELSE IF score > 50 THEN "B"
    ELSE IF score > 25 THEN "C"
    ELSE "D"

\* enrich_leagues.calculate_tier
calculate_tier(score) ==
    IF score >= 75 THEN "A"
    ELSE IF score >= 50 THEN "B"
    ELSE IF score >= 25 THEN "C"
    ELSE "D"

\* fetch_popularity.calculate_tier
popularity_calculate_tier(score) ==
    IF score >= 80 THEN "A"
    ELSE IF score >= 60 THEN "B"
    ELSE IF score >= 40 THEN "C"
    ELSE "D"

(***************************************************************************)
(* Normalisation of the raw metrics.                                       *)
(***************************************************************************)
\* The largest k in lo..hi with b^k <= target, given b^lo <= target < b^(hi+1).
RECURSIVE PowSearch(_, _, _, _)
PowSearchAt(b, target, lo, hi, mid) ==
    IF BigCmp(BigPow(b, mid), target) <= 0
    THEN PowSearch(b, target, mid, hi)
    ELSE PowSearch(b, target, lo, mid - 1)
PowSearch(b, target, lo, hi) ==
    IF lo = hi THEN lo ELSE PowSearchAt(b, target, lo, hi, (lo + hi + 1) \div 2)

\* int(math.log10(a) / math.log10(b) * 100) for integers a >= 1, b >= 2: the
\* largest k with b^k <= a^100.  The double evaluation gives this same integer
\* for every a and b the model draws (a = b gives the quotient 1.0 exactly).
\* The search ends at (100 * bits of a) / (bits of b - 1): b^k >= 2^(k * (bits
\* of b - 1)) is above a^100 < 2^(100 * bits of a) for every k beyond it.
LogRatioPercent(a, b) ==
    PowSearch(BigFromNat(b), BigPow(BigFromNat(a), 100), 0,
              (100 * BitLenSmall(a)) \div (BitLenSmall(b) - 1))

\* The quotients above for every pair the model can draw, computed once.
LogTable ==
    [a \in 1..(MaxMetricValue + 1), b \in 2..(MaxMetricValue + 1) |-> LogRatioPercent(a, b)]

\* Lines 42-44
normalize_log_scale(value, max_value) ==
    IF value <= 0 \/ max_value <= 0 THEN 0
    ELSE LogTable[value + 1, max_value + 1]

\* Line 44 raises when it is reached with a logarithm of a number <= 0
\* (ValueError) or with log10(max_value + 1) = 0 (ZeroDivisionError).
normalize_log_scale_raises(value, max_value) ==
    /\ ~(value <= 0 \/ max_value <= 0)
    /\ (value + 1 <= 0 \/ max_value + 1 <= 0 \/ max_value + 1 = 1)

\* Line 146 without the scaling to percent.
normalize_linear_unscaled(trends_index, trends_max) ==
    IF trends_max > 0
    THEN FTrunc(FDiv(FloatOfInt(trends_index), FloatOfInt(trends_max)))
    ELSE 0

\* Line 146 with the guard trends_max != 0.
normalize_linear_nonzero_guard(trends_index, trends_max) ==
    IF trends_max # 0
    THEN FTrunc(FMul(FDiv(FloatOfInt(trends_index), FloatOfInt(trends_max)),
                     FloatOfInt(100)))
    ELSE 0

\* Line 146: int(trends_index / trends_max * 100) if trends_max > 0 else 0
normalize_linear(trends_index, trends_max) ==
    IF trends_max > 0
    THEN FTrunc(FMul(FDiv(FloatOfInt(trends_index), FloatOfInt(trends_max)),
                     FloatOfInt(100)))
    ELSE 0

\* Line 146 raises ZeroDivisionError when the division is reached with
\* trends_max = 0.
normalize_linear_raises(trends_index, trends_max) ==
    trends_max > 0 /\ trends_max = 0

(***************************************************************************)
(* Python dicts: a sequence of [key, value] pairs in insertion order.      *)
(* Assigning to a key already present keeps its place.                     *)
(***************************************************************************)
DictKeys(d) == {d[i].key : i \in 1..Len(d)}

DictHas(d, k) == \E i \in 1..Len(d) : d[i].key = k

DictGet(d, k) == d[CHOOSE i \in 1..Len(d) : d[i].key = k].value

\* The same with the first value kept when the key is already present.
DictSetFirstWins(d, k, v) ==
    IF DictHas(d, k) THEN d ELSE Append(d, [key |-> k, value |-> v])

DictSet(d, k, v) ==
    IF DictHas(d, k)
    THEN [i \in 1..Len(d) |-> IF d[i].key = k THEN [key |-> k, value |-> v] ELSE d[i]]
    ELSE Append(d, [key |-> k, value |-> v])

\* None, and the truth value of an optional record (a source record is a
\* non-empty dict, which is true).
None == [none |-> TRUE]
IsTrue(x) == x # None

(***************************************************************************)
(* enrich_leagues.main: the indices.                                       *)
(***************************************************************************)
Suffixes ==
    << <<" ", "l", "e", "a", "g", "u", "e">>,
       <<" ", "d", "i", "v", "i", "s", "i", "o", "n">>,
       <<" ", "l", "i", "g", "a">>,
       <<" ", "t", "o", "u", "r">> >>

\* The inner loop of create_lookup over the suffixes from position j on.
RECURSIVE AddSuffixKeys(_, _, _, _)
AddSuffixKeys(lookup, normalized, league_data, j) ==
    IF j > Len(Suffixes) THEN lookup
    ELSE LET suffix == Suffixes[j]
             next   == IF EndsWith(normalized, suffix)
                       THEN DictSet(lookup,
                                    Strip(SubSeq(normalized, 1, Len(normalized) - Len(suffix))),
                                    league_data)
                       ELSE lookup
         IN  AddSuffixKeys(next, normalized, league_data, j + 1)

\* The outer loop of create_lookup over data.items() from position i on.
RECURSIVE CreateLookupFrom(_, _, _)
CreateLookupFrom(data, lookup, i) ==
    IF i > Len(data) THEN lookup
    ELSE LET normalized == normalize_league_name(data[i].key)
             with_name  == DictSet(lookup, normalized, data[i].value)
         IN  CreateLookupFrom(data,
                              AddSuffixKeys(with_name, normalized, data[i].value, 1),
                              i + 1)

create_lookup(data) == CreateLookupFrom(data, <<>>, 1)

\* max(...) over the entries' metric, default 1 for an empty source.
RECURSIVE SeqMax(_, _)
SeqMax(vals, i) ==
    IF i = Len(vals) THEN vals[i] ELSE Max2(vals[i], SeqMax(vals, i + 1))

\* The same with min in place of max.
min_metric(data, field) ==
    IF data = <<>> THEN 1
    ELSE LET vals == [i \in 1..Len(data) |-> -data[i].value[field]]
         IN  -SeqMax(vals, 1)

max_metric(data, field) ==
    IF data = <<>> THEN 1
    ELSE SeqMax([i \in 1..Len(data) |-> data[i].value[field]], 1)

(***************************************************************************)
(* enrich_leagues.main: matching one league against one index.             *)
(***************************************************************************)
\* The scan keeping the last such key instead of stopping at the first.
RECURSIVE PartialScanLast(_, _, _)
PartialScanLast(lookup, normalized, i) ==
    IF i > Len(lookup) THEN None
    ELSE LET later == PartialScanLast(lookup, normalized, i + 1)
         IN  IF later # None THEN later
             ELSE IF IsSubstring(lookup[i].key, normalized) \/ IsSubstring(normalized, lookup[i].key)
             THEN lookup[i].value
             ELSE None

\* The partial scan: the value of the first key, in index order, that contains
\* the target or is contained in it.
RECURSIVE PartialScan(_, _, _)
PartialScan(lookup, normalized, i) ==
    IF i > Len(lookup) THEN None
    ELSE IF IsSubstring(lookup[i].key, normalized) \/ IsSubstring(normalized, lookup[i].key)
    THEN lookup[i].value
    ELSE PartialScan(lookup, normalized, i + 1)

\* The partial scan first, the exact match if it found nothing.
MatchSourceScanFirst(lookup, normalized) ==
    LET scanned == PartialScan(lookup, normalized, 1)
    IN  IF IsTrue(scanned) THEN scanned
        ELSE IF DictHas(lookup, normalized) THEN DictGet(lookup, normalized) ELSE None

\* Exact match first, the partial scan if that left nothing true.
MatchSource(lookup, normalized) ==
    LET exact == IF DictHas(lookup, normalized) THEN DictGet(lookup, normalized) ELSE None
    IN  IF IsTrue(exact) THEN exact ELSE PartialScan(lookup, normalized, 1)

\* The season lookup: exact match, else the partial scan.
MatchSeason(lookup, normalized) ==
    IF DictHas(lookup, normalized) THEN DictGet(lookup, normalized)
    ELSE PartialScan(lookup, normalized, 1)

(***************************************************************************)
(* enrich_leagues.main: score fusion for one league.                       *)
(***************************************************************************)
WIKI_WEIGHT == FloatLiteral(55, 100)
TRENDS_WEIGHT == FloatLiteral(45, 100)

\* total_weight = 0, then += the weight of each source present.
AddWeight(total, present, weight) == IF present THEN FAdd(total, weight) ELSE total
TotalWeight(has_wiki, has_trends, wiki_weight, trends_weight) ==
    AddWeight(AddWeight(FloatOfInt(0), has_wiki, wiki_weight), has_trends, trends_weight)

\* (norm * weight) / total_weight if the source is present else 0
Contribution(present, norm, weight, total_weight) ==
    IF present THEN FDiv(FMul(FloatOfInt(norm), weight), total_weight) ELSE FloatOfInt(0)

\* Lines 160-166, given total_weight.
WeightedScore(has_wiki, has_trends, wiki_norm, trends_norm, wiki_weight, trends_weight, total_weight) ==
    IF FIsPositive(total_weight)
    THEN FTrunc(FAdd(Contribution(has_wiki, wiki_norm, wiki_weight, total_weight),
                     Contribution(has_trends, trends_norm, trends_weight, total_weight)))
    ELSE 0

\* Lines 148-166 for given weights.
ScoreWithWeights(has_wiki, has_trends, wiki_norm, trends_norm, wiki_weight, trends_weight) ==
    WeightedScore(has_wiki, has_trends, wiki_norm, trends_norm, wiki_weight, trends_weight,
                  TotalWeight(has_wiki, has_trends, wiki_weight, trends_weight))

\* The fusion with the two weights exchanged.
combined_score_swapped(has_wiki, has_trends, wiki_norm, trends_norm) ==
    ScoreWithWeights(has_wiki, has_trends, wiki_norm, trends_norm,
                     TRENDS_WEIGHT, WIKI_WEIGHT)

\* The fusion with the score of a block kept at 1 or more.
combined_score_at_least_one(has_wiki, has_trends, wiki_norm, trends_norm) ==
    Max2(1, ScoreWithWeights(has_wiki, has_trends, wiki_norm, trends_norm,
                             WIKI_WEIGHT, TRENDS_WEIGHT))

\* Lines 148-166: combined_score from the two normalised sub-scores.
combined_score(has_wiki, has_trends, wiki_norm, trends_norm) ==
    ScoreWithWeights(has_wiki, has_trends, wiki_norm, trends_norm,
                     WIKI_WEIGHT, TRENDS_WEIGHT)

\* Line 140 with the test dropped: a block for every league.
has_any_source_always(wiki_data, trends_data_item) == TRUE

\* Line 140: if wiki_data or trends_data_item
has_any_source(wiki_data, trends_data_item) ==
    IsTrue(wiki_data) \/ IsTrue(trends_data_item)

\* Lines 141-180: the popularity block of a league with at least one source.
PopularityBlock(wiki_data, trends_data_item, wk_max, tr_max) ==
    LET wiki_views   == IF IsTrue(wiki_data) THEN wiki_data.wikipedia_monthly_views ELSE 0
        trends_index == IF IsTrue(trends_data_item)
                        THEN trends_data_item.google_trends_index ELSE 0
        wiki_norm    == normalize_log_scale(wiki_views, wk_max)
        trends_norm  == normalize_linear(trends_index, tr_max)
        sources_used == (IF IsTrue(wiki_data) THEN <<"wikipedia">> ELSE <<>>)
                            \o (IF IsTrue(trends_data_item) THEN <<"google_trends">> ELSE <<>>)
        score        == combined_score(IsTrue(wiki_data), IsTrue(trends_data_item),
                                       wiki_norm, trends_norm)
        block        == [score |-> score, tier |-> calculate_tier(score),
                         sources |-> sources_used]
        with_wiki    == IF IsTrue(wiki_data)
                        THEN [wikipedia_monthly_views |-> wiki_views,
                              wikipedia_score |-> wiki_norm] @@ block
                        ELSE block
    IN  IF IsTrue(trends_data_item)
        THEN [google_trends_index |-> trends_index,
              google_trends_score |-> trends_norm] @@ with_wiki
        ELSE with_wiki

\* Lines 141-146 raise when one of the two normalisations does.
PopularityRaises(wiki_data, trends_data_item, wk_max, tr_max) ==
    \/ normalize_log_scale_raises(
           IF IsTrue(wiki_data) THEN wiki_data.wikipedia_monthly_views ELSE 0, wk_max)
    \/ normalize_linear_raises(
           IF IsTrue(trends_data_item) THEN trends_data_item.google_trends_index ELSE 0,
           tr_max)

\* Lines 195-201: the season block.
SeasonBlock(season_data_item) ==
    [current      |-> season_data_item.current_season,
     start_date   |-> season_data_item.start_date,
     end_date     |-> season_data_item.end_date,
     events_count |-> season_data_item.events_count]

\* The same with the new value stacked on the one already there.
WithKeyStacked(d, k, v) ==
    [f \in DOMAIN d \cup {k} |->
        IF f # k THEN d[f] ELSE IF k \in DOMAIN d THEN <<d[k], v>> ELSE v]

\* A dict with key k set to v (k added when absent).
WithKey(d, k, v) == [f \in DOMAIN d \cup {k} |-> IF f = k THEN v ELSE d[f]]

\* Lines 113-201: the loop body for one league.
EnrichedLeague(league, wk_lookup, tr_lookup, se_lookup, wk_max, tr_max) ==
    LET normalized       == normalize_league_name(league.name)
        wiki_data        == MatchSource(wk_lookup, normalized)
        trends_data_item == MatchSource(tr_lookup, normalized)
        with_popularity  ==
            IF has_any_source(wiki_data, trends_data_item)
            THEN WithKey(league, "popularity",
                         PopularityBlock(wiki_data, trends_data_item, wk_max, tr_max))
            ELSE league
        season_data_item == MatchSeason(se_lookup, normalized)
    IN  IF IsTrue(season_data_item)
        THEN WithKey(with_popularity, "season", SeasonBlock(season_data_item))
        ELSE with_popularity

(***************************************************************************)
(* State.                                                                  *)
(***************************************************************************)
VARIABLES
    persisted,        \* merged_sports_data.json on disk
    merged_data,      \* the catalog in memory: <<>> ({}) when the file is missing
    wikipedia_data,   \* popularity_data.json
    trends_data,      \* google_trends_data.json
    seasons_data,     \* seasons_data.json
    wiki_max, trends_max,
    wiki_lookup, trends_lookup, seasons_lookup,
    league_index,     \* position of the loop over the leagues, in iteration order
    enriched_count,
    pc,               \* "start", "enrich", "done", "raised"; "idle" outside the pass
    history,          \* the passes that saved: their source tables and their output
    call,             \* a function taken alone: its name and arguments
    result,           \* and what it returned
    frame             \* the locals of a function run step by step, and its calls out

passVars == <<persisted, merged_data, wikipedia_data, trends_data, seasons_data,
              wiki_max, trends_max, wiki_lookup, trends_lookup, seasons_lookup,
              league_index, enriched_count, pc, history>>
fnVars == <<call, result, frame>>
vars == <<passVars, fnVars>>

NoCall == [fn |-> "none"]
NoFrame == [pc |-> "none"]

(***************************************************************************)
(* The inputs of a pass.                                                   *)
(***************************************************************************)
\* Source names: "A-B" has the canonical form "a b"; "b tour" ends in a
\* generic suffix, so its record is also indexed under "b".
SourceNameAB == <<"A", "-", "B">>
SourceNameBTour == <<"b", " ", "t", "o", "u", "r">>

\* League names: "a_b" is "a b" in canonical form, "B" is "b", and "c" matches
\* no source name.
LeagueNames == { <<"a", "_", "b">>, <<"B">>, <<"c">> }

Entry(name, rec) == [key |-> name, value |-> rec]

\* The tables over the two source names, in file order.
SourceTables(records) ==
    {<<>>}
        \cup {<<Entry(SourceNameAB, r)>> : r \in records}
        \cup {<<Entry(SourceNameBTour, r)>> : r \in records}
        \cup {<<Entry(SourceNameAB, r1), Entry(SourceNameBTour, r2)>> :
                  r1 \in records, r2 \in records}

WikiRecords == {[wikipedia_monthly_views |-> v] : v \in -1..MaxViews}
TrendsRecords == {[google_trends_index |-> v] : v \in -1..MaxIndex}
SeasonRecord ==
    [current_season |-> "2025-2026", start_date |-> "2025-08-15",
     end_date |-> "2026-05-24", events_count |-> 380]
SeasonTables == {<<>>, <<Entry(SourceNameBTour, SeasonRecord)>>}

\* The league lists: up to MaxLeagues leagues with different names.
LeagueLists ==
    {ls \in UNION {[1..n -> {[name |-> ln] : ln \in LeagueNames}] : n \in 0..MaxLeagues} :
        \A i \in 1..Len(ls) : \A j \in 1..Len(ls) : ls[i] = ls[j] => i = j}
Catalogs == {<<>>} \cup {[leagues |-> ls] : ls \in LeagueLists}

(***************************************************************************)
(* enrich_leagues.main as a pass over the catalog.                         *)
(***************************************************************************)
Init ==
    /\ merged_data \in Catalogs
    /\ persisted = merged_data
    /\ wikipedia_data \in SourceTables(WikiRecords)
    /\ trends_data \in SourceTables(TrendsRecords)
    /\ seasons_data \in SeasonTables
    /\ wiki_max = 0 /\ trends_max = 0
    /\ wiki_lookup = <<>> /\ trends_lookup = <<>> /\ seasons_lookup = <<>>
    /\ league_index = 0
    /\ enriched_count = 0
    /\ pc = "start"
    /\ history = <<>>
    /\ call = NoCall /\ result = NoCall /\ frame = NoFrame

\* Lines 62-64: the catalog file is missing; nothing is written.
MissingCatalog ==
    /\ pc = "start"
    /\ DOMAIN merged_data = {}
    /\ pc' = "done"
    /\ UNCHANGED <<persisted, merged_data, wikipedia_data, trends_data, seasons_data,
                   wiki_max, trends_max, wiki_lookup, trends_lookup, seasons_lookup,
                   league_index, enriched_count, history, call, result, frame>>

\* Lines 71-107: the maxima, the three indices, the counter.
LoadSources ==
    /\ pc = "start"
    /\ DOMAIN merged_data # {}
    /\ wiki_max' = max_metric(wikipedia_data, "wikipedia_monthly_views")
    /\ trends_max' = max_metric(trends_data, "google_trends_index")
    /\ wiki_lookup' = create_lookup(wikipedia_data)
    /\ trends_lookup' = create_lookup(trends_data)
    /\ seasons_lookup' = create_lookup(seasons_data)
    /\ enriched_count' = 0
    /\ league_index' = 1
    /\ pc' = "enrich"
    /\ UNCHANGED <<persisted, merged_data, wikipedia_data, trends_data, seasons_data,
                   history, call, result, frame>>

\* The iteration with the catalog saved at the end of it.
EnrichLeagueSaving ==
    /\ pc = "enrich"
    /\ league_index <= Len(merged_data.leagues)
    /\ merged_data' =
           [merged_data EXCEPT !.leagues[league_index] =
               EnrichedLeague(merged_data.leagues[league_index], wiki_lookup, trends_lookup,
                              seasons_lookup, wiki_max, trends_max)]
    /\ persisted' = merged_data'
    /\ league_index' = league_index + 1
    /\ UNCHANGED <<wikipedia_data, trends_data, seasons_data, wiki_max, trends_max,
                   wiki_lookup, trends_lookup, seasons_lookup, enriched_count, pc,
                   history, call, result, frame>>

\* Lines 112-201: one iteration of the loop over the leagues.  An exception
\* in the normalisations ends the pass before anything is saved.
EnrichLeague ==
    /\ pc = "enrich"
    /\ league_index <= Len(merged_data.leagues)
    /\ LET league           == merged_data.leagues[league_index]
           normalized       == normalize_league_name(league.name)
           wiki_data        == MatchSource(wiki_lookup, normalized)
           trends_data_item == MatchSource(trends_lookup, normalized)
           matched          == has_any_source(wiki_data, trends_data_item)
       IN  IF matched /\ PopularityRaises(wiki_data, trends_data_item, wiki_max, trends_max)
           THEN /\ pc' = "raised"
                /\ UNCHANGED <<merged_data, enriched_count, league_index>>
           ELSE /\ merged_data' =
                       [merged_data EXCEPT !.leagues[league_index] =
                           EnrichedLeague(league, wiki_lookup, trends_lookup,
                                          seasons_lookup, wiki_max, trends_max)]
                /\ enriched_count' = IF matched THEN enriched_count + 1 ELSE enriched_count
                /\ league_index' = league_index + 1
                /\ pc' = pc
    /\ UNCHANGED <<persisted, wikipedia_data, trends_data, seasons_data,
                   wiki_max, trends_max, wiki_lookup, trends_lookup, seasons_lookup,
                   history, call, result, frame>>

\* Lines 203-209: the leagues that carry a season block.
SeasonCount(leagues) ==
    Cardinality({i \in 1..Len(leagues) : "season" \in DOMAIN leagues[i]})

\* Lines 211-221: the metadata of the pass.
PassMeta(count, season_count) ==
    [enriched_with_popularity |-> TRUE,
     leagues_with_popularity  |-> count,
     leagues_with_season      |-> season_count,
     popularity_sources       |-> <<"wikipedia", "google_trends">>,
     popularity_weights       |-> [wikipedia |-> WIKI_WEIGHT, google_trends |-> TRENDS_WEIGHT]]

\* Lines 203-224: the loop is over; count, update the metadata, save.
FinishPass ==
    /\ pc = "enrich"
    /\ league_index > Len(merged_data.leagues)
    /\ merged_data' =
           WithKey(merged_data, "_meta",
                   PassMeta(enriched_count, SeasonCount(merged_data.leagues)))
    /\ persisted' = merged_data'
    /\ history' = Append(history, [wikipedia_data |-> wikipedia_data,
                                   trends_data    |-> trends_data,
                                   seasons_data   |-> seasons_data,
                                   output         |-> merged_data'])
    /\ pc' = "done"
    /\ UNCHANGED <<wikipedia_data, trends_data, seasons_data,
                   wiki_max, trends_max, wiki_lookup, trends_lookup, seasons_lookup,
                   league_index, enriched_count, call, result, frame>>

Next == MissingCatalog \/ LoadSources \/ EnrichLeague \/ FinishPass

Spec == Init /\ [][Next]_vars

(***************************************************************************)
(* The script run again and again on the catalog it saved, up to MaxPasses *)
(* saved passes, the source files the same or replaced between two runs.   *)
(***************************************************************************)
MaxPasses == 2

\* The three source files together: none with an entry, all with entries,
\* wikipedia alone, trends and seasons without wikipedia.
SourceFiles ==
    LET wiki_ab   == Entry(SourceNameAB, [wikipedia_monthly_views |-> 1])
        wiki_tour == Entry(SourceNameBTour, [wikipedia_monthly_views |-> MaxViews])
        trends_ab == Entry(SourceNameAB, [google_trends_index |-> MaxIndex])
        season    == Entry(SourceNameBTour, SeasonRecord)
        Files(w, t, s) == [wikipedia_data |-> w, trends_data |-> t, seasons_data |-> s]
    IN  { Files(<<>>, <<>>, <<>>),
          Files(<<wiki_ab, wiki_tour>>, <<trends_ab>>, <<season>>),
          Files(<<wiki_tour>>, <<>>, <<>>),
          Files(<<>>, <<trends_ab>>, <<season>>) }

InitRerun ==
    /\ merged_data \in Catalogs
    /\ persisted = merged_data
    /\ \E files \in SourceFiles :
           /\ wikipedia_data = files.wikipedia_data
           /\ trends_data = files.trends_data
           /\ seasons_data = files.seasons_data
    /\ wiki_max = 0 /\ trends_max = 0
    /\ wiki_lookup = <<>> /\ trends_lookup = <<>> /\ seasons_lookup = <<>>
    /\ league_index = 0
    /\ enriched_count = 0
    /\ pc = "start"
    /\ history = <<>>
    /\ call = NoCall /\ result = NoCall /\ frame = NoFrame

\* Lines 53-60 of a later run: the catalog is read back from the file the
\* run before saved (ints, strings, lists and dicts come back from JSON as
\* they were written), the source files are read as they are now.
RunAgain ==
    /\ pc = "done"
    /\ Len(history) < MaxPasses
    /\ merged_data' = persisted
    /\ \E files \in SourceFiles :
           /\ wikipedia_data' = files.wikipedia_data
           /\ trends_data' = files.trends_data
           /\ seasons_data' = files.seasons_data
    /\ wiki_max' = 0 /\ trends_max' = 0
    /\ wiki_lookup' = <<>> /\ trends_lookup' = <<>> /\ seasons_lookup' = <<>>
    /\ league_index' = 0
    /\ enriched_count' = 0
    /\ pc' = "start"
    /\ UNCHANGED <<persisted, history, call, result, frame>>

NextRerun == MissingCatalog \/ LoadSources \/ EnrichLeague \/ FinishPass \/ RunAgain

SpecRerun == InitRerun /\ [][NextRerun]_vars

(***************************************************************************)
(* The functions taken alone: Init draws a call, the action applies the    *)
(* function to it.  The variables of the pass stay idle.                   *)
(***************************************************************************)
Pending == [pending |-> TRUE]

Idle ==
    /\ persisted = <<>> /\ merged_data = <<>>
    /\ wikipedia_data = <<>> /\ trends_data = <<>> /\ seasons_data = <<>>
    /\ wiki_max = 0 /\ trends_max = 0
    /\ wiki_lookup = <<>> /\ trends_lookup = <<>> /\ seasons_lookup = <<>>
    /\ league_index = 0
    /\ enriched_count = 0
    /\ pc = "idle"
    /\ history = <<>>

\* The normalised sub-scores and the scores.
Scores == 0..100

\* Lines 141-166 see an absent source as a sub-score of 0.
FusionCalls ==
    {[fn |-> "combined_score", has_wiki |-> TRUE, has_trends |-> TRUE,
      wiki_norm |-> w, trends_norm |-> t] : w \in Scores, t \in Scores}
    \cup {[fn |-> "combined_score", has_wiki |-> TRUE, has_trends |-> FALSE,
           wiki_norm |-> w, trends_norm |-> 0] : w \in Scores}
    \cup {[fn |-> "combined_score", has_wiki |-> FALSE, has_trends |-> TRUE,
           wiki_norm |-> 0, trends_norm |-> t] : t \in Scores}

InitFusion == Idle /\ call \in FusionCalls /\ result = Pending /\ frame = NoFrame

\* Lines 148-172: the score and the tier of the block.
FusedBlock(score) == [score |-> score, tier |-> calculate_tier(score)]

ApplyCombinedScore ==
    /\ call.fn = "combined_score"
    /\ result = Pending
    /\ result' = FusedBlock(combined_score(call.has_wiki, call.has_trends,
                                           call.wiki_norm, call.trends_norm))
    /\ UNCHANGED <<passVars, call, frame>>

NextFusion == ApplyCombinedScore

SpecFusion == InitFusion /\ [][NextFusion]_vars

TierCalls ==
    {[fn |-> f, score |-> sc] :
        f \in {"calculate_tier", "popularity_calculate_tier"}, sc \in Scores}

InitTier == Idle /\ call \in TierCalls /\ result = Pending /\ frame = NoFrame

ApplyCalculateTier ==
    /\ call.fn = "calculate_tier"
    /\ result = Pending
    /\ result' = [tier |-> calculate_tier(call.score)]
    /\ UNCHANGED <<passVars, call, frame>>

ApplyPopularityCalculateTier ==
    /\ call.fn = "popularity_calculate_tier"
    /\ result = Pending
    /\ result' = [tier |-> popularity_calculate_tier(call.score)]
    /\ UNCHANGED <<passVars, call, frame>>

NextTier == ApplyCalculateTier \/ ApplyPopularityCalculateTier

SpecTier == InitTier /\ [][NextTier]_vars

NormCalls ==
    {[fn |-> f, value |-> v, max_value |-> m] :
        f \in {"normalize_log_scale", "normalize_linear"},
        v \in -1..MaxValue, m \in -1..MaxValue}

InitNorm == Idle /\ call \in NormCalls /\ result = Pending /\ frame = NoFrame

ApplyNormalizeLogScale ==
    /\ call.fn = "normalize_log_scale"
    /\ result = Pending
    /\ result' = [value |-> normalize_log_scale(call.value, call.max_value)]
    /\ UNCHANGED <<passVars, call, frame>>

ApplyNormalizeLinear ==
    /\ call.fn = "normalize_linear"
    /\ result = Pending
    /\ result' = [value |-> normalize_linear(call.value, call.max_value)]
    /\ UNCHANGED <<passVars, call, frame>>

NextNorm == ApplyNormalizeLogScale \/ ApplyNormalizeLinear

SpecNorm == InitNorm /\ [][NextNorm]_vars

Names == UNION {[1..n -> Chars] : n \in 0..MaxNameLen}

NameCalls == {[fn |-> "normalize_league_name", name |-> x] : x \in Names}

InitName == Idle /\ call \in NameCalls /\ result = Pending /\ frame = NoFrame

ApplyNormalizeLeagueName ==
    /\ call.fn = "normalize_league_name"
    /\ result = Pending
    /\ result' = [name |-> normalize_league_name(call.name)]
    /\ UNCHANGED <<passVars, call, frame>>

NextName == ApplyNormalizeLeagueName

SpecName == InitName /\ [][NextName]_vars

(***************************************************************************)
(* build_events: the level of an event.                                    *)
(***************************************************************************)
COMPETITION_LEVELS == [World |-> 1, Continental |-> 2, National |-> 3, Other |-> 4]

\* The fragments are tested one by one with `in`, any one deciding: their
\* order inside a list does not matter.
WORLD_COMPETITIONS ==
    << <<"f", "o", "r", "m", "u", "l", "a", " ", "1">>,
       <<"f", "o", "r", "m", "u", "l", "a", " ", "e">>,
       <<"m", "o", "t", "o", " ", "g", "p">>,
       <<"m", "o", "t", "o", "g", "p">>,
       <<"t", "o", "u", "r", " ", "d", "e", " ", "f", "r", "a", "n", "c", "e">>,
       <<"g", "i", "r", "o", " ", "d", "'", "i", "t", "a", "l", "i", "a">>,
       <<"v", "u", "e", "l", "t", "a", " ", "a", " ", "e", "s", "p", "a", "ñ", "a">>,
       <<"g", "r", "a", "n", "d", " ", "s", "l", "a", "m">>,
       <<"a", "t", "p", " ", "f", "i", "n", "a", "l", "s">>,
       <<"w", "t", "a", " ", "f", "i", "n", "a", "l", "s">>,
       <<"a", "t", "p", " ", "t", "o", "u", "r">>,
       <<"w", "t", "a", " ", "t", "o", "u", "r">>,
       <<"s", "u", "p", "e", "r", " ", "b", "o", "w", "l">>,
       <<"n", "b", "a">>,
       <<"n", "h", "l">>,
       <<"2", "4", " ", "h", "o", "u", "r", "s", " ", "o", "f", " ", "l", "e", " ", "m", "a", "n", "s">>,
       <<"i", "n", "d", "y", "c", "a", "r">>,
       <<"n", "a", "s", "c", "a", "r">>,
       <<"c", "o", "m", "m", "o", "n", "w", "e", "a", "l", "t", "h", " ", "g", "a", "m", "e", "s">>,
       <<"p", "g", "a", " ", "t", "o", "u", "r">>,
       <<"l", "p", "g", "a", " ", "t", "o", "u", "r">>,
       <<"l", "i", "v", " ", "g", "o", "l", "f">>,
       <<"s", "a", "i", "l", "g", "p">>,
       <<"t", "h", "e", " ", "b", "o", "a", "t", " ", "r", "a", "c", "e">> >>

CONTINENTAL_COMPETITIONS ==
    << <<"e", "u", "r", "o", "l", "e", "a", "g", "u", "e">>,
       <<"e", "u", "r", "o", "c", "u", "p">>,
       <<"u", "e", "f", "a", " ", "e", "u", "r", "o", "p", "a", " ", "l", "e", "a", "g", "u", "e">>,
       <<"u", "e", "f", "a", " ", "e", "u", "r", "o", "p", "a", " ", "c", "o", "n", "f", "e", "r", "e", "n", "c", "e", " ", "l", "e", "a", "g", "u", "e">>,
       <<"a", "f", "c">>,
       <<"c", "a", "f">>,
       <<"c", "o", "n", "c", "a", "c", "a", "f">>,
       <<"c", "o", "n", "m", "e", "b", "o", "l">>,
       <<"o", "f", "c">>,
       <<"f", "i", "h", " ", "h", "o", "c", "k", "e", "y", " ", "m", "e", "n", "'", "s", " ", "p", "r", "o", " ", "l", "e", "a", "g", "u", "e">>,
       <<"f", "i", "h", " ", "h", "o", "c", "k", "e", "y", " ", "w", "o", "m", "e", "n", "'", "s", " ", "p", "r", "o", " ", "l", "e", "a", "g", "u", "e">>,
       <<"m", "e", "d", "i", "t", "e", "r", "r", "a", "n", "e", "a", "n", " ", "g", "a", "m", "e", "s">>,
       <<"c", "e", "n", "t", "r", "a", "l", " ", "a", "m", "e", "r", "i", "c", "a", "n">>,
       <<"s", "o", "u", "t", "h", " ", "a", "m", "e", "r", "i", "c", "a", "n", " ", "g", "a", "m", "e", "s">> >>

\* The keyword lists of the three generic checks.
WorldKeywords ==
    << <<"w", "o", "r", "l", "d">>,
       <<"m", "o", "n", "d", "i", "a", "l">>,
       <<"o", "l", "y", "m", "p", "i", "c", "s">>,
       <<"o", "l", "y", "m", "p", "i", "c">>,
       <<"g", "l", "o", "b", "a", "l">> >>

ContinentalKeywords ==
    << <<"e", "u", "r", "o", "p", "e", "a", "n">>,
       <<"e", "u", "r", "o", " ">>,
       <<"a", "s", "i", "a", "n">>,
       <<"a", "f", "r", "i", "c", "a", "n">>,
       <<"c", "o", "p", "a", " ", "a", "m", "e", "r", "i", "c", "a">>,
       <<"c", "h", "a", "m", "p", "i", "o", "n", "s", " ", "l", "e", "a", "g", "u", "e">>,
       <<"c", "o", "n", "t", "i", "n", "e", "n", "t", "a", "l">> >>

NationalKeywords ==
    << <<"n", "a", "t", "i", "o", "n", "a", "l">>,
       <<"c", "h", "a", "m", "p", "i", "o", "n", "s", "h", "i", "p">>,
       <<"c", "u", "p">>,
       <<"l", "e", "a", "g", "u", "e">> >>

\* any(w in combined for w in words)
AnyIn(words, combined) == \E i \in 1..Len(words) : IsSubstring(words[i], combined)

\* f"{name} {competition}" of the two lower-cased texts.
CombinedText(event) == Lower(event.name) \o <<" ">> \o Lower(event.competition)

\* The level of a combined text, the checks in the order of the code.
LevelOfText(combined) ==
    IF AnyIn(WORLD_COMPETITIONS, combined) THEN COMPETITION_LEVELS.World
    ELSE IF AnyIn(CONTINENTAL_COMPETITIONS, combined) THEN COMPETITION_LEVELS.Continental
    ELSE IF AnyIn(WorldKeywords, combined) THEN COMPETITION_LEVELS.World
    ELSE IF AnyIn(ContinentalKeywords, combined) THEN COMPETITION_LEVELS.Continental
    ELSE IF AnyIn(NationalKeywords, combined) THEN COMPETITION_LEVELS.National
    ELSE COMPETITION_LEVELS.Other

\* The same with the national keywords tested before the continental ones.
LevelOfTextNationalFirst(combined) ==
    IF AnyIn(WORLD_COMPETITIONS, combined) THEN COMPETITION_LEVELS.World
    ELSE IF AnyIn(CONTINENTAL_COMPETITIONS, combined) THEN COMPETITION_LEVELS.Continental
    ELSE IF AnyIn(WorldKeywords, combined) THEN COMPETITION_LEVELS.World
    ELSE IF AnyIn(NationalKeywords, combined) THEN COMPETITION_LEVELS.National
    ELSE IF AnyIn(ContinentalKeywords, combined) THEN COMPETITION_LEVELS.Continental
    ELSE COMPETITION_LEVELS.Other

get_competition_level_national_first(event) == LevelOfTextNationalFirst(CombinedText(event))

get_competition_level(event) == LevelOfText(CombinedText(event))

(***************************************************************************)
(* get_competition_level taken alone, on names of up to MaxWords words and *)
(* a few competitions.                                                     *)
(***************************************************************************)
MaxWords == 2

EventWords ==
    { <<"W", "o", "r", "l", "d">>,
       <<"N", "B", "A">>,
       <<"C", "A", "F">>,
       <<"E", "u", "r", "o", "p", "e", "a", "n">>,
       <<"E", "u", "r", "o">>,
       <<"C", "h", "a", "m", "p", "i", "o", "n", "s", "h", "i", "p">>,
       <<"C", "u", "p">>,
       <<"O", "p", "e", "n">> }

EuropeanChampionship2026 ==
    <<"2", "0", "2", "6", " ", "U", "E", "F", "A", " ", "E", "u", "r", "o", "p", "e", "a", "n", " ", "C", "h", "a", "m", "p", "i", "o", "n", "s", "h", "i", "p">>

EventCompetitions ==
    { <<>>,
       <<"U", "E", "F", "A", " ", "E", "u", "r", "o", "p", "a", " ", "L", "e", "a", "g", "u", "e">>,
       <<"P", "r", "e", "m", "i", "e", "r", " ", "L", "e", "a", "g", "u", "e">>,
       <<"G", "r", "a", "n", "d", " ", "S", "l", "a", "m">> }

\* The words joined by single spaces.
RECURSIVE JoinWords(_)
JoinWords(ws) ==
    IF ws = <<>> THEN <<>>
    ELSE IF Len(ws) = 1 THEN ws[1]
    ELSE ws[1] \o <<" ">> \o JoinWords(Tail(ws))

EventNames ==
    {EuropeanChampionship2026}
        \cup {JoinWords(ws) : ws \in UNION {[1..n -> EventWords] : n \in 0..MaxWords}}

LevelCalls ==
    {[fn |-> "get_competition_level", event |-> [name |-> n, competition |-> c]] :
        n \in EventNames, c \in EventCompetitions}

InitLevel == Idle /\ call \in LevelCalls /\ result = Pending /\ frame = NoFrame

ApplyGetCompetitionLevel ==
    /\ call.fn = "get_competition_level"
    /\ result = Pending
    /\ result' = [level |-> get_competition_level(call.event)]
    /\ UNCHANGED <<passVars, call, frame>>

NextLevel == ApplyGetCompetitionLevel

SpecLevel == InitLevel /\ [][NextLevel]_vars

(***************************************************************************)
(* create_lookup and the matching of one league taken alone, on source     *)
(* tables of up to MaxEntries entries in any order.  The raw names include *)
(* two with one canonical form ("A-B", "a_b"), one whose suffix-stripped   *)
(* alias is another's canonical form ("b tour", "B"), a suffix in the      *)
(* middle and at the end of a name, and one whose canonical form is the    *)
(* empty string ("-").                                                     *)
(***************************************************************************)
MaxEntries == 2

IndexNames ==
    << <<"A", "-", "B">>,
       <<"a", "_", "b">>,
       <<"B">>,
       <<"b", " ", "t", "o", "u", "r">>,
       <<"S", "u", "p", "e", "r", " ", "L", "e", "a", "g", "u", "e", " ", "G", "r", "e", "e", "c", "e">>,
       <<"S", "u", "p", "e", "r", " ", "G", "r", "e", "e", "c", "e", " ", "L", "e", "a", "g", "u", "e">>,
       <<"-">> >>

SuperLeagueGreece == IndexNames[5]
SuperGreeceLeague == IndexNames[6]

\* The record of a raw name: each name has a record of its own.
IndexRecord(k) == [wikipedia_monthly_views |-> k]

IndexTables ==
    UNION {{[i \in 1..n |-> Entry(IndexNames[f[i]], IndexRecord(f[i]))] :
               f \in {g \in [1..n -> 1..Len(IndexNames)] :
                          \A i, j \in 1..n : i # j => g[i] # g[j]}} :
           n \in 0..MaxEntries}

MatchNames ==
    { <<>>,
       <<"a", "_", "b">>,
       <<"B">>,
       <<"c">>,
       <<"G", "r", "e", "e", "c", "e">>,
       <<"A", "-", "B", " ", "T", "o", "u", "r">>,
       <<"S", "u", "p", "e", "r", " ", "G", "r", "e", "e", "c", "e">> }

IndexCalls ==
    {[fn |-> "create_lookup", data |-> d] : d \in IndexTables}
        \cup {[fn |-> "match_league", data |-> d, name |-> n] :
                  d \in IndexTables, n \in MatchNames}

InitIndex == Idle /\ call \in IndexCalls /\ result = Pending /\ frame = NoFrame

ApplyCreateLookup ==
    /\ call.fn = "create_lookup"
    /\ result = Pending
    /\ result' = [lookup |-> create_lookup(call.data)]
    /\ UNCHANGED <<passVars, call, frame>>

\* The partial scan of a source is entered on `if not wiki_data`, the one of
\* the seasons on the else of `if normalized in seasons_lookup`.
SourceScanned(lookup, normalized) ==
    ~IsTrue(IF DictHas(lookup, normalized) THEN DictGet(lookup, normalized) ELSE None)

SeasonScanned(lookup, normalized) == ~DictHas(lookup, normalized)

\* One league matched against the index of a source, the way the wikipedia
\* and trends indices are and the way the seasons index is.
MatchLeague(lookup, normalized) ==
    [wiki_data        |-> MatchSource(lookup, normalized),
     wiki_scanned     |-> SourceScanned(lookup, normalized),
     season_data_item |-> MatchSeason(lookup, normalized),
     season_scanned   |-> SeasonScanned(lookup, normalized)]

ApplyMatchLeague ==
    /\ call.fn = "match_league"
    /\ result = Pending
    /\ result' = MatchLeague(create_lookup(call.data), normalize_league_name(call.name))
    /\ UNCHANGED <<passVars, call, frame>>

NextIndex == ApplyCreateLookup \/ ApplyMatchLeague

SpecIndex == InitIndex /\ [][NextIndex]_vars

(***************************************************************************)
(* build_events: the provider's events and the UFC records in one list.    *)
(* A JSON object is a record; a key it may lack is read with Get.  The     *)
(* display-only fields (dateDisplay, emoji, the URLs) and generated_at,    *)
(* the wall clock, are left out of the records.                            *)
(***************************************************************************)
MAJOR_SPORTS ==
    {"Football", "Tennis", "Rugby", "Basketball", "Baseball", "Cricket", "Boxing", "MMA"}

\* d.get(k, default)
Get(d, k, default) == IF k \in DOMAIN d THEN d[k] ELSE default

\* s[:n]
Take(s, n) == SubSeq(s, 1, Min2(Len(s), n))

\* The characters of the dates in code point order, and a < b on strings.
CharOrder ==
    <<"-", "0", "1", "2", "3", "4", "5", "6", "7", "8", "9", ":", "T", "Z">>

CharCode(c) == CHOOSE i \in 1..Len(CharOrder) : CharOrder[i] = c

RECURSIVE StrLess(_, _)
StrLess(a, b) ==
    IF b = <<>> THEN FALSE
    ELSE IF a = <<>> THEN TRUE
    ELSE IF Head(a) # Head(b) THEN CharCode(Head(a)) < CharCode(Head(b))
    ELSE StrLess(Tail(a), Tail(b))

\* The insertion that puts x before the elements of its own date as well.
RECURSIVE InsertBeforeEqual(_, _)
InsertBeforeEqual(sorted, x) ==
    IF sorted = <<>> THEN <<x>>
    ELSE IF ~StrLess(Head(sorted).date, x.date) THEN <<x>> \o sorted
    ELSE <<Head(sorted)>> \o InsertBeforeEqual(Tail(sorted), x)

\* list.sort(key=...) is stable: x goes before the first element whose key is
\* greater than its own.
RECURSIVE InsertByDate(_, _)
InsertByDate(sorted, x) ==
    IF sorted = <<>> THEN <<x>>
    ELSE IF StrLess(x.date, Head(sorted).date) THEN <<x>> \o sorted
    ELSE <<Head(sorted)>> \o InsertByDate(Tail(sorted), x)

RECURSIVE SortByDateFrom(_, _, _)
SortByDateFrom(events, sorted, i) ==
    IF i > Len(events) THEN sorted
    ELSE SortByDateFrom(events, InsertByDate(sorted, events[i]), i + 1)

\* events.sort(key=lambda e: e.get("date", ""))
SortByDate(events) == SortByDateFrom(events, <<>>, 1)

\* comp_lookup.get(comp_id, {}).get("ageGroup", ""): of two competitions with
\* one id the dict keeps the later.
AgeGroup(competitions, comp_id) ==
    IF \E i \in 1..Len(competitions) : competitions[i].id = comp_id
    THEN LET same == {i \in 1..Len(competitions) : competitions[i].id = comp_id}
             last == CHOOSE i \in same : \A j \in same : j <= i
         IN  Get(competitions[last], "ageGroup", "")
    ELSE ""

\* Lines 102-103: an event of an age group other than Senior is left out.
Retained(competitions, event) ==
    LET age_group == AgeGroup(competitions, Get(event, "competitionId", None))
    IN  ~(age_group # "" /\ age_group \notin {"Senior", ""})

\* e.get("dateFrom", "")[:10] if e.get("dateFrom") else ""
DateOf(event, field) ==
    IF field \in DOMAIN event /\ event[field] # <<>> THEN Take(event[field], 10) ELSE <<>>

\* Lines 129-132: the country and the first city of each location.
LocationsOf(event) ==
    LET location == Get(event, "location", <<>>)
    IN  [i \in 1..Len(location) |->
            [country |-> Get(location[i], "name", None),
             city    |-> Get(Get(location[i], "locations", <<[none |-> TRUE]>>)[1],
                             "name", None)]]

\* Lines 112-133: the record of a provider event.
ProviderRecord(event) ==
    [id            |-> Get(event, "id", None),
     name          |-> Get(event, "name", <<>>),
     date          |-> DateOf(event, "dateFrom"),
     dateTo        |-> DateOf(event, "dateTo"),
     sport         |-> Get(event, "sport", "Unknown"),
     sportId       |-> Get(event, "sportId", None),
     competition   |-> Get(event, "competition", <<>>),
     competitionId |-> Get(event, "competitionId", None),
     continent     |-> Get(event, "continent", ""),
     level         |-> get_competition_level([name        |-> Get(event, "name", <<>>),
                                               competition |-> Get(event, "competition", <<>>)]),
     isMajorSport  |-> Get(event, "sport", "Unknown") \in MAJOR_SPORTS,
     locations     |-> LocationsOf(event)]

\* Lines 96-133: the loop over the provider's events from position i on.
RECURSIVE ProviderEventsFrom(_, _, _)
ProviderEventsFrom(data, events, i) ==
    IF i > Len(Get(data, "events", <<>>)) THEN events
    ELSE LET event == data.events[i]
         IN  ProviderEventsFrom(data,
                 IF Retained(Get(data, "competitions", <<>>), event)
                 THEN Append(events, ProviderRecord(event))
                 ELSE events,
                 i + 1)

\* load_ufc_data: no file, no events.
Missing == [missing |-> TRUE]
load_ufc_data(file) == IF file = Missing THEN <<>> ELSE Get(file, "events", <<>>)

\* The start with the number of events in place of their greatest id.
next_id_from_count(events) == Len(events) + 1000

\* Line 137: max((e.get("id", 0) for e in events), default=0) + 1000
next_id_start(events) ==
    IF events = <<>> THEN 1000
    ELSE SeqMax([i \in 1..Len(events) |-> Get(events[i], "id", 0)], 1) + 1000

\* The id kept from one record to the next.
next_id_kept(next_id) == next_id

\* Line 171: next_id += 1
next_id_after(next_id) == next_id + 1

UfcCompetition == <<"U", "F", "C">>

\* ufc.get("locations") without the default: None for a record without the key.
UfcLocationsNoDefault(ufc) == Get(ufc, "locations", None)

\* Line 169: ufc.get("locations", [])
UfcLocations(ufc) == Get(ufc, "locations", <<>>)

\* Lines 153-170: the record of a UFC event.
UfcRecord(ufc, next_id) ==
    [id            |-> next_id,
     name          |-> Get(ufc, "name", <<>>),
     date          |-> Get(ufc, "date", <<>>),
     dateTo        |-> Get(ufc, "dateTo", Get(ufc, "date", <<>>)),
     sport         |-> "MMA",
     sportId       |-> 999,
     competition   |-> Get(ufc, "competition", UfcCompetition),
     competitionId |-> 9999,
     continent     |-> "World",
     level         |-> Get(ufc, "level", 1),
     isMajorSport  |-> TRUE,
     locations     |-> UfcLocations(ufc)]

\* Lines 139-171: the loop over the UFC events from position k on.
RECURSIVE UfcEventsFrom(_, _, _, _)
UfcEventsFrom(ufc_events, events, next_id, k) ==
    IF k > Len(ufc_events) THEN events
    ELSE UfcEventsFrom(ufc_events,
                       Append(events, UfcRecord(ufc_events[k], next_id)),
                       next_id_after(next_id), k + 1)

\* Lines 94-106 and 140-141: the events counted by sport, in the order the
\* sports are first seen.
RECURSIVE CountSports(_, _, _)
CountSports(events, sports_count, i) ==
    IF i > Len(events) THEN sports_count
    ELSE LET sport == events[i].sport
             seen  == IF DictHas(sports_count, sport) THEN DictGet(sports_count, sport) ELSE 0
         IN  CountSports(events, DictSet(sports_count, sport, seen + 1), i + 1)

\* sorted(sports_count.items(), key=lambda x: -x[1]), stable as well.
RECURSIVE InsertByCount(_, _)
InsertByCount(sorted, x) ==
    IF sorted = <<>> THEN <<x>>
    ELSE IF x.value > Head(sorted).value THEN <<x>> \o sorted
    ELSE <<Head(sorted)>> \o InsertByCount(Tail(sorted), x)

RECURSIVE SortByCountFrom(_, _, _)
SortByCountFrom(items, sorted, i) ==
    IF i > Len(items) THEN sorted
    ELSE SortByCountFrom(items, InsertByCount(sorted, items[i]), i + 1)

\* Lines 176-187: what build_events returns.
Unified(events, unsorted) ==
    [events   |-> events,
     metadata |-> [total_count        |-> Len(events),
                   sports             |-> SortByCountFrom(CountSports(unsorted, <<>>, 1), <<>>, 1),
                   major_sports_count |->
                       Cardinality({i \in 1..Len(events) : events[i].isMajorSport})]]

WithUfc(ufc_events, provider) ==
    UfcEventsFrom(ufc_events, provider, next_id_start(provider), 1)

\* Line 130: loc.get("locations", [{}])[0] on an empty list of cities.
IndexError == [raised |-> "IndexError"]

LocationsRaise(event) ==
    \E i \in 1..Len(Get(event, "location", <<>>)) :
        Get(event.location[i], "locations", <<[none |-> TRUE]>>) = <<>>

build_events_raises(data) ==
    \E i \in 1..Len(Get(data, "events", <<>>)) :
        /\ Retained(Get(data, "competitions", <<>>), data.events[i])
        /\ LocationsRaise(data.events[i])

build_events(data, ufc_file) ==
    IF build_events_raises(data) THEN IndexError
    ELSE LET unsorted == WithUfc(load_ufc_data(ufc_file), ProviderEventsFrom(data, <<>>, 1))
         IN  Unified(SortByDate(unsorted), unsorted)

(***************************************************************************)
(* build_events taken alone, on up to MaxProviderEvents events of the      *)
(* provider, with ids of their own, and up to MaxUfcEvents UFC records,    *)
(* with names of their own as fetch_ufc leaves them.  Events share dates,  *)
(* have a location list or none, a country with cities, without the key,  *)
(* or with an empty list of cities.                                        *)
(***************************************************************************)
MaxProviderEvents == 2
MaxUfcEvents == 2

\* A senior competition, a youth competition; competition 3 is not listed.
Competitions ==
    << [id |-> 1, name |-> "UFC", ageGroup |-> "Senior"],
       [id |-> 2, name |-> "Youth Cup", ageGroup |-> "U21"] >>

Ufc300Name == <<"2", "0", "2", "6", " ", "U", "F", "C", " ", "3", "0", "0">>

ProviderPool ==
    << [id |-> 5, name |-> Ufc300Name, sport |-> "MMA", sportId |-> 7, competition |-> <<"U", "F", "C">>, competitionId |-> 1, continent |-> "World", dateFrom |-> <<"2", "0", "2", "6", "-", "0", "1", "-", "1", "0", "T", "2", "0", ":", "0", "0", ":", "0", "0", "Z">>, dateTo |-> <<"2", "0", "2", "6", "-", "0", "1", "-", "1", "1", "T", "0", "0", ":", "0", "0", ":", "0", "0", "Z">>, location |-> <<[name |-> "USA", locations |-> <<[name |-> "Las Vegas"]>>]>>],
       [id |-> 4000, name |-> <<"F", "I", "F", "A", " ", "W", "o", "r", "l", "d", " ", "C", "u", "p">>, sport |-> "Football", competitionId |-> 3, dateFrom |-> <<"2", "0", "2", "6", "-", "0", "1", "-", "0", "3", "T", "1", "8", ":", "0", "0", ":", "0", "0", "Z">>],
       [id |-> 4001, name |-> <<"Y", "o", "u", "t", "h", " ", "C", "u", "p">>, sport |-> "Football", competitionId |-> 2, dateFrom |-> <<"2", "0", "2", "6", "-", "0", "1", "-", "1", "0", "T", "0", "9", ":", "0", "0", ":", "0", "0", "Z">>, location |-> <<[name |-> "France"]>>],
       [id |-> 7, name |-> <<"M", "o", "n", "a", "c", "o", " ", "G", "r", "a", "n", "d", " ", "P", "r", "i", "x">>, sport |-> "Motorsport", competitionId |-> 3, dateFrom |-> <<"2", "0", "2", "6", "-", "0", "1", "-", "0", "3", "T", "1", "2", ":", "0", "0", ":", "0", "0", "Z">>, location |-> <<[name |-> "Monaco"]>>],
       [id |-> 8, name |-> <<"V", "u", "e", "l", "t", "a">>, sport |-> "Cycling", competitionId |-> 1, dateFrom |-> <<"2", "0", "2", "6", "-", "0", "1", "-", "1", "0", "T", "1", "0", ":", "0", "0", ":", "0", "0", "Z">>, location |-> <<[name |-> "Spain", locations |-> <<>>]>>] >>

UfcPool ==
    << [name |-> Ufc300Name, date |-> <<"2", "0", "2", "6", "-", "0", "1", "-", "1", "0">>],
       [name |-> <<"U", "F", "C", " ", "3", "0", "1">>, date |-> <<"2", "0", "2", "6", "-", "0", "1", "-", "0", "3">>, locations |-> <<[country |-> "USA", city |-> "Las Vegas"]>>],
       [name |-> <<"U", "F", "C", " ", "F", "i", "g", "h", "t", " ", "N", "i", "g", "h", "t">>, date |-> <<>>, level |-> 2],
       [name |-> <<"U", "F", "C", " ", "3", "0", "2">>, date |-> <<"2", "0", "2", "6", "-", "0", "1", "-", "1", "0">>, dateTo |-> <<"2", "0", "2", "6", "-", "0", "1", "-", "1", "1">>] >>

\* The lists of up to n different elements of a pool, in any order.
ListsOf(pool, n) ==
    UNION {{[i \in 1..m |-> pool[f[i]]] :
               f \in {g \in [1..m -> 1..Len(pool)] :
                          \A i, j \in 1..m : i # j => g[i] # g[j]}} :
           m \in 0..n}

BuildCalls ==
    {[fn       |-> "build_events",
      data     |-> [events |-> es, competitions |-> Competitions],
      ufc_file |-> f] :
        es \in ListsOf(ProviderPool, MaxProviderEvents),
        f \in {Missing} \cup {[events |-> us] : us \in ListsOf(UfcPool, MaxUfcEvents)}}

InitBuild == Idle /\ call \in BuildCalls /\ result = Pending /\ frame = NoFrame

ApplyBuildEvents ==
    /\ call.fn = "build_events"
    /\ result = Pending
    /\ result' = build_events(call.data, call.ufc_file)
    /\ UNCHANGED <<passVars, call, frame>>

NextBuild == ApplyBuildEvents

SpecBuild == InitBuild /\ [][NextBuild]_vars

(***************************************************************************)
(* fetch_ufc: the UFC records from the calendar and the detailed events of *)
(* one ESPN response.                                                      *)
(***************************************************************************)
Digits == {"0", "1", "2", "3", "4", "5", "6", "7", "8", "9"}

\* datetime.fromisoformat(s.replace("Z", "+00:00")) accepts the strings that
\* begin with a date YYYY-MM-DD (the inputs have a well-formed time or none
\* after it) and raises ValueError on the others; strftime("%Y-%m-%d") gives
\* the date back.
IsIsoDate(s) ==
    /\ Len(s) >= 10
    /\ \A i \in {1, 2, 3, 4, 6, 7, 9, 10} : s[i] \in Digits
    /\ s[5] = "-" /\ s[8] = "-"

DateText(s) == SubSeq(s, 1, 10)

\* label.split(":")[0]
RECURSIVE BeforeColon(_)
BeforeColon(s) ==
    IF s = <<>> \/ Head(s) = ":" THEN <<>> ELSE <<Head(s)>> \o BeforeColon(Tail(s))

\* "UFC " in label and any(c.isdigit() for c in label.split(":")[0])
IsNumbered(label) ==
    /\ IsSubstring(<<"U", "F", "C", " ">>, label)
    /\ \E i \in 1..Len(BeforeColon(label)) : BeforeColon(label)[i] \in Digits

\* f"2026 {label}"
Year2026(label) == <<"2", "0", "2", "6", " ">> \o label

\* Lines 47-55 and 95-103: a record without locations.
UfcEvent(label, date, date_to) ==
    [name        |-> Year2026(label),
     date        |-> date,
     dateTo      |-> date_to,
     sport       |-> "MMA",
     competition |-> "UFC",
     level       |-> IF IsNumbered(label) THEN 1 ELSE 2,
     source      |-> "espn"]

\* Lines 28-57: the loop over the calendar from position i on.
RECURSIVE CalendarEventsFrom(_, _, _)
CalendarEventsFrom(calendar, events, i) ==
    IF i > Len(calendar) THEN events
    ELSE LET label      == Get(calendar[i], "label", <<>>)
             start_date == Get(calendar[i], "startDate", <<>>)
             end_date   == Get(calendar[i], "endDate", <<>>)
             skipped    == \/ label = <<>> \/ start_date = <<>>
                           \/ ~IsIsoDate(start_date)
                           \/ (end_date # <<>> /\ ~IsIsoDate(end_date))
             event      == UfcEvent(label, DateText(start_date),
                                    IF end_date # <<>> THEN DateText(end_date)
                                    ELSE DateText(start_date))
         IN  CalendarEventsFrom(calendar,
                                IF skipped THEN events ELSE Append(events, event),
                                i + 1)

\* Lines 70-77: the venues that name a city.
RECURSIVE VenueLocations(_, _)
VenueLocations(venues, i) ==
    IF i > Len(venues) THEN <<>>
    ELSE LET address == Get(venues[i], "address", [none |-> TRUE])
             city    == Get(address, "city", "")
             country == Get(address, "country", "USA")
         IN  (IF city # "" THEN <<[country |-> country, city |-> city]>> ELSE <<>>)
                 \o VenueLocations(venues, i + 1)

\* Lines 83-86: the first record of the name gets the locations, if any.
Backfill(events, name, locations) ==
    IF locations = <<>> THEN events
    ELSE LET first == CHOOSE i \in 1..Len(events) :
                          /\ events[i].name = name
                          /\ \A j \in 1..(i - 1) : events[j].name # name
         IN  [events EXCEPT ![first] = WithKey(events[first], "locations", locations)]

\* Lines 61-107: the loop over the detailed events from position i on.
RECURSIVE DetailedEventsFrom(_, _, _)
DetailedEventsFrom(current_events, events, i) ==
    IF i > Len(current_events) THEN events
    ELSE LET evt       == current_events[i]
             name      == Get(evt, "name", <<>>)
             date_str  == Get(evt, "date", <<>>)
             locations == VenueLocations(Get(evt, "venues", <<>>), 1)
             exists    == \E k \in 1..Len(events) : events[k].name = Year2026(name)
             event     == UfcEvent(name, DateText(date_str), DateText(date_str))
             next      ==
                 IF name = <<>> \/ date_str = <<>> THEN events
                 ELSE IF exists THEN Backfill(events, Year2026(name), locations)
                 ELSE IF ~IsIsoDate(date_str) THEN events
                 ELSE Append(events, IF locations # <<>>
                                     THEN WithKey(event, "locations", locations)
                                     ELSE event)
         IN  DetailedEventsFrom(current_events, next, i + 1)

\* The records of every name kept, none dropped.
KeepAll(events, unique_events, i) == events

\* Lines 110-115: the first record of every name.
RECURSIVE Deduplicate(_, _, _)
Deduplicate(events, unique_events, i) ==
    IF i > Len(events) THEN unique_events
    ELSE Deduplicate(events,
                     IF \E k \in 1..Len(unique_events) : unique_events[k].name = events[i].name
                     THEN unique_events
                     ELSE Append(unique_events, events[i]),
                     i + 1)

HTTPStatusError == [raised |-> "HTTPStatusError"]

\* Lines 19-117, on the response of the one request.
fetch_ufc_events(response) ==
    IF response.status >= 400 THEN HTTPStatusError
    ELSE LET data     == response.json
             calendar == Get(Get(data, "leagues", <<[none |-> TRUE]>>)[1], "calendar", <<>>)
             events   == DetailedEventsFrom(Get(data, "events", <<>>),
                                            CalendarEventsFrom(calendar, <<>>, 1), 1)
         IN  [events |-> Deduplicate(events, <<>>, 1)]

(***************************************************************************)
(* fetch_ufc_events taken alone, on responses with up to                   *)
(* MaxCalendarEntries calendar entries and MaxDetailedEvents detailed      *)
(* events: names shared between and inside the two lists, venues with and  *)
(* without a city, dates that parse and one that does not.                 *)
(***************************************************************************)
MaxCalendarEntries == 2
MaxDetailedEvents == 2

Label300 == <<"U", "F", "C", " ", "3", "0", "0">>
Label301 == <<"U", "F", "C", " ", "3", "0", "1", ":", " ", "A", " ", "v", "s", " ", "B">>
LabelNight == <<"U", "F", "C", " ", "F", "i", "g", "h", "t", " ", "N", "i", "g", "h", "t", ":", " ", "C", " ", "v", "s", " ", "D">>

CalendarPool ==
    << [label |-> Label300, startDate |-> <<"2", "0", "2", "6", "-", "0", "1", "-", "1", "0", "T", "2", "0", ":", "0", "0", "Z">>, endDate |-> <<"2", "0", "2", "6", "-", "0", "1", "-", "1", "1", "T", "0", "4", ":", "0", "0", "Z">>],
       [label |-> Label300, startDate |-> <<"2", "0", "2", "6", "-", "0", "2", "-", "1", "4", "T", "2", "0", ":", "0", "0", "Z">>],
       [label |-> LabelNight, startDate |-> <<"2", "0", "2", "6", "-", "0", "1", "-", "0", "3", "T", "2", "0", ":", "0", "0", "Z">>, endDate |-> <<>>],
       [label |-> Label301, startDate |-> <<"s", "o", "o", "n">>] >>

DetailedPool ==
    << [id |-> "600", name |-> Label300, date |-> <<"2", "0", "2", "6", "-", "0", "1", "-", "1", "0", "T", "2", "2", ":", "0", "0", "Z">>, venues |-> <<[address |-> [city |-> "Las Vegas", country |-> "USA"]]>>],
       [id |-> "601", name |-> Label300, date |-> <<"2", "0", "2", "6", "-", "0", "3", "-", "0", "1", "T", "2", "2", ":", "0", "0", "Z">>, venues |-> <<[address |-> [city |-> "Newark"]], [address |-> [country |-> "USA"]]>>],
       [id |-> "602", name |-> Label300, date |-> <<"2", "0", "2", "6", "-", "0", "1", "-", "1", "0", "T", "2", "2", ":", "0", "0", "Z">>],
       [id |-> "603", name |-> Label301, date |-> <<"2", "0", "2", "6", "-", "0", "1", "-", "2", "4", "T", "2", "2", ":", "0", "0", "Z">>, venues |-> <<[address |-> [city |-> "Paris", country |-> "France"]]>>],
       [id |-> "604", name |-> Label301, date |-> <<"s", "o", "o", "n">>, venues |-> <<[address |-> [city |-> "London", country |-> "UK"]]>>] >>

UfcResponses ==
    {[status |-> 503]}
        \cup {[status |-> 200, json |-> [events |-> ds]] :
                 ds \in ListsOf(DetailedPool, MaxDetailedEvents)}
        \cup {[status |-> 200, json |-> [leagues |-> <<[calendar |-> cs]>>, events |-> ds]] :
                 cs \in ListsOf(CalendarPool, MaxCalendarEntries),
                 ds \in ListsOf(DetailedPool, MaxDetailedEvents)}

UfcCalls == {[fn |-> "fetch_ufc_events", response |-> r] : r \in UfcResponses}

InitUfc == Idle /\ call \in UfcCalls /\ result = Pending /\ frame = NoFrame

ApplyFetchUfcEvents ==
    /\ call.fn = "fetch_ufc_events"
    /\ result = Pending
    /\ result' = fetch_ufc_events(call.response)
    /\ UNCHANGED <<passVars, call, frame>>

NextUfc == ApplyFetchUfcEvents

SpecUfc == InitUfc /\ [][NextUfc]_vars

(***************************************************************************)
(* fetch_allsportdb.fetch_paginated, step by step: the requests it sends,  *)
(* the responses the server may give to each, the sleeps between them.     *)
(* frame.io is the sequence of its calls to client.get and time.sleep.     *)
(***************************************************************************)
MAX_RETRIES == 3

\* Seconds, as a fraction: 0.5.
RATE_LIMIT_DELAY == [num |-> 1, den |-> 2]

\* Line 52: the size of a full page.
PageSize == 100

\* The pages after which the server has no full page left.
MaxPages == 2

PageItems(page, n) == [i \in 1..n |-> [id |-> (page - 1) * PageSize + i]]

\* The bodies of a 200 response: a JSON array or a JSON object.
Bodies(page) ==
    (IF page <= MaxPages
     THEN {[array |-> PageItems(page, PageSize)],
           [object |-> [data |-> PageItems(page, PageSize)]]}
     ELSE {})
        \cup {[object |-> [items |-> PageItems(page, 2)]],
              [array |-> <<>>],
              [object |-> [total |-> 0]]}

Responses(page) ==
    {[status_code |-> 429], [status_code |-> 500]}
        \cup {[status_code |-> 200, json |-> body] : body \in Bodies(page)}

\* Line 43.
ItemsOf(data) ==
    IF "array" \in DOMAIN data THEN data.array
    ELSE Get(data.object, "data", Get(data.object, "items", <<>>))

\* Without params (the default, None), with an empty dict, with a filter.
PaginatedCalls ==
    {[fn |-> "fetch_paginated", endpoint |-> "events"]}
        \cup {[fn |-> "fetch_paginated", endpoint |-> "competitions", params |-> ps] :
                 ps \in {<<>>, <<[key |-> "sport", value |-> "Football"]>>}}

InitPaginated == Idle /\ call \in PaginatedCalls /\ result = Pending /\ frame = NoFrame

\* Lines 20-25: the locals, and the first pass through the head of the loop.
CallFetchPaginated ==
    /\ call.fn = "fetch_paginated"
    /\ result = Pending
    /\ frame = NoFrame
    /\ frame' = [pc        |-> "get",
                 all_items |-> <<>>,
                 page      |-> 1,
                 params    |-> DictSet(Get(call, "params", <<>>), "page", 1),
                 retry     |-> 0,
                 response  |-> None,
                 io        |-> <<>>]
    /\ UNCHANGED <<passVars, call, result>>

\* Lines 32-35 with the sleep left out.
BackoffSkipped ==
    /\ frame.pc = "sleep"
    /\ frame' = [frame EXCEPT !.retry = frame.retry + 1,
                              !.pc = IF frame.retry + 1 < MAX_RETRIES THEN "get" ELSE "check"]
    /\ UNCHANGED <<passVars, call, result>>

\* Lines 29-31: one request and the response to it.
ClientGet ==
    /\ frame.pc = "get"
    /\ \E response \in Responses(frame.page) :
           frame' = [frame EXCEPT
                        !.response = response,
                        !.io = Append(frame.io, [op       |-> "get",
                                                 endpoint |-> call.endpoint,
                                                 params   |-> frame.params,
                                                 response |-> response]),
                        !.pc = IF response.status_code = 429 THEN "sleep" ELSE "check"]
    /\ UNCHANGED <<passVars, call, result>>

\* Lines 32-35 and the head of the for loop: the backoff, then the next
\* retry, or the end of the loop when the retries are used up.
Backoff ==
    /\ frame.pc = "sleep"
    /\ LET wait_time == (2 ^ frame.retry) * 2
       IN  frame' = [frame EXCEPT
                        !.io = Append(frame.io, [op |-> "sleep", seconds |-> wait_time]),
                        !.retry = frame.retry + 1,
                        !.pc = IF frame.retry + 1 < MAX_RETRIES THEN "get" ELSE "check"]
    /\ UNCHANGED <<passVars, call, result>>

\* Lines 38-58 with a page that is not a 200 passed over instead of ending
\* the loop.
AfterResponseSkipping ==
    /\ frame.pc = "check"
    /\ LET ok    == frame.response.status_code = 200
           items == IF ok THEN ItemsOf(frame.response.json) ELSE <<>>
           more  == frame.all_items \o items
       IN  IF (ok /\ Len(items) >= PageSize) \/ (~ok /\ frame.page <= MaxPages)
           THEN /\ frame' = [frame EXCEPT
                                !.all_items = more,
                                !.page = frame.page + 1,
                                !.params = DictSet(frame.params, "page", frame.page + 1),
                                !.retry = 0,
                                !.io = Append(frame.io, [op      |-> "pause",
                                                         seconds |-> RATE_LIMIT_DELAY]),
                                !.pc = "get"]
                /\ UNCHANGED result
           ELSE /\ frame' = [frame EXCEPT !.all_items = more, !.pc = "done"]
                /\ result' = [value |-> more]
    /\ UNCHANGED <<passVars, call>>

\* Lines 38-58: after the retries, the end of the loop and the return, or
\* the items kept and the next page.
AfterResponse ==
    /\ frame.pc = "check"
    /\ LET ok    == frame.response.status_code = 200
           items == IF ok THEN ItemsOf(frame.response.json) ELSE <<>>
           more  == frame.all_items \o items
       IN  IF ok /\ Len(items) >= PageSize
           THEN /\ frame' = [frame EXCEPT
                                !.all_items = more,
                                !.page = frame.page + 1,
                                !.params = DictSet(frame.params, "page", frame.page + 1),
                                !.retry = 0,
                                !.io = Append(frame.io, [op      |-> "pause",
                                                         seconds |-> RATE_LIMIT_DELAY]),
                                !.pc = "get"]
                /\ UNCHANGED result
           ELSE /\ frame' = [frame EXCEPT !.all_items = more, !.pc = "done"]
                /\ result' = [value |-> more]
    /\ UNCHANGED <<passVars, call>>

NextPaginated == CallFetchPaginated \/ ClientGet \/ Backoff \/ AfterResponse

SpecPaginated == InitPaginated /\ [][NextPaginated]_vars

(***************************************************************************)
(* fetch_leagues.fetch_leagues, step by step: one country, up to           *)
(* MAX_RETRIES requests, what each request may come back with.             *)
(***************************************************************************)
\* MAX_RETRIES of fetch_leagues.py.
LEAGUES_MAX_RETRIES == 3

\* The JSON bodies of a successful response: "countries" null, absent, or
\* an array.  The last has a league without strSport.
LeagueBodies ==
    {[countries |-> None],
     [message |-> "none"],
     [countries |-> [array |-> <<>>]],
     [countries |-> [array |-> <<[strLeague |-> "Ligue 1", strSport |-> "Soccer",
                                  idLeague |-> "4334"]>>]],
     [countries |-> [array |-> <<[strLeague |-> "Ligue 1", strSport |-> "Soccer"],
                                 [strLeague |-> "Top 14", strSport |-> "Rugby"]>>]],
     [countries |-> [array |-> <<[strLeague |-> "Ligue 1"]>>]]}

\* What client.get comes back with: a response, or an exception of the
\* transport (subclasses of httpx.HTTPError).
LeagueOutcomes ==
    {[status_code |-> s] : s \in {429, 404, 500}}
        \cup {[status_code |-> 200, json |-> body] : body \in LeagueBodies}
        \cup {[exception |-> e] : e \in {"ConnectError", "ReadTimeout"}}

LeagueCountries == {"France", "England", "Congo"}

LeaguesCalls == {[fn |-> "fetch_leagues", country |-> c] : c \in LeagueCountries}

InitLeagues == Idle /\ call \in LeaguesCalls /\ result = Pending /\ frame = NoFrame

\* Line 43: the first attempt.
CallFetchLeagues ==
    /\ call.fn = "fetch_leagues"
    /\ result = Pending
    /\ frame = NoFrame
    /\ frame' = [pc |-> "get", attempt |-> 0, outcome |-> None, io |-> <<>>]
    /\ UNCHANGED <<passVars, call, result>>

\* Line 45.
LeaguesGet ==
    /\ frame.pc = "get"
    /\ \E outcome \in LeagueOutcomes :
           frame' = [frame EXCEPT
                        !.outcome = outcome,
                        !.io = Append(frame.io, [op      |-> "get",
                                                 params  |-> [c |-> call.country],
                                                 outcome |-> outcome]),
                        !.pc = "handle"]
    /\ UNCHANGED <<passVars, call, result>>

\* Lines 52-55.
LeagueRecords(countries) ==
    [i \in 1..Len(countries) |->
        [name |-> countries[i].strLeague, sport |-> countries[i].strSport]]

\* The retry taken on every attempt, the last one too.
RetryOnLast(attempt) == attempt < LEAGUES_MAX_RETRIES

\* Line 57: a 429 is retried on every attempt but the last.
RetryAllowed(attempt) == attempt < LEAGUES_MAX_RETRIES - 1

\* Lines 46-66: the response read, or the exception handled.
LeaguesHandle ==
    /\ frame.pc = "handle"
    /\ LET outcome == frame.outcome
           Return(value) ==
               /\ frame' = [frame EXCEPT !.pc = "done"]
               /\ result' = value
       IN  IF "exception" \in DOMAIN outcome
           THEN Return([value |-> <<>>])
           ELSE IF outcome.status_code >= 400
           THEN IF outcome.status_code = 429 /\ RetryAllowed(frame.attempt)
                THEN /\ frame' = [frame EXCEPT !.pc = "sleep"]
                     /\ UNCHANGED result
                ELSE Return([value |-> <<>>])
           ELSE LET countries == Get(outcome.json, "countries", None)
                IN  IF countries = None \/ countries.array = <<>>
                    THEN Return([value |-> <<>>])
                    ELSE IF \E i \in 1..Len(countries.array) :
                                {"strLeague", "strSport"} \ DOMAIN countries.array[i] # {}
                    THEN Return([raised |-> "KeyError"])
                    ELSE Return([value |-> LeagueRecords(countries.array)])
    /\ UNCHANGED <<passVars, call>>

\* Lines 58-61 and the head of the loop; line 67 when the loop is over.
LeaguesSleep ==
    /\ frame.pc = "sleep"
    /\ LET wait_time == (frame.attempt + 1) * 3
           io        == Append(frame.io, [op |-> "sleep", seconds |-> wait_time])
       IN  IF frame.attempt + 1 < LEAGUES_MAX_RETRIES
           THEN /\ frame' = [frame EXCEPT !.io = io, !.attempt = frame.attempt + 1,
                                          !.pc = "get"]
                /\ UNCHANGED result
           ELSE /\ frame' = [frame EXCEPT !.io = io, !.attempt = frame.attempt + 1,
                                          !.pc = "done"]
                /\ result' = [value |-> <<>>]
    /\ UNCHANGED <<passVars, call>>

NextLeagues == CallFetchLeagues \/ LeaguesGet \/ LeaguesHandle \/ LeaguesSleep

SpecLeagues == InitLeagues /\ [][NextLeagues]_vars

\* The function is one sequential loop: a step that can be taken is taken
\* (client.get comes back, by a response or by the client's timeout, and
\* time.sleep comes back).
SpecLeaguesFair == SpecLeagues /\ WF_vars(NextLeagues)

(***************************************************************************)
(* merge_data.aggregate_uk_leagues: the four home nations gathered under   *)
(* "United Kingdom".                                                       *)
(***************************************************************************)
UK_COUNTRIES == <<"England", "Scotland", "Wales", "Northern Ireland">>

\* del d[k]
DictDel(d, k) == SelectSeq(d, LAMBDA e : e.key # k)

\* Lines 50-54: the loop over UK_COUNTRIES from position i on; the dict and
\* the leagues gathered so far.
RECURSIVE GatherUk(_, _, _)
GatherUk(leagues_data, uk_leagues, i) ==
    IF i > Len(UK_COUNTRIES) THEN [leagues_data |-> leagues_data, uk_leagues |-> uk_leagues]
    ELSE IF DictHas(leagues_data, UK_COUNTRIES[i])
    THEN GatherUk(DictDel(leagues_data, UK_COUNTRIES[i]),
                  uk_leagues \o DictGet(leagues_data, UK_COUNTRIES[i]),
                  i + 1)
    ELSE GatherUk(leagues_data, uk_leagues, i + 1)

\* Lines 50-59.
aggregate_uk_leagues(leagues_data) ==
    LET gathered == GatherUk(leagues_data, <<>>, 1)
    IN  IF gathered.uk_leagues # <<>>
        THEN DictSet(gathered.leagues_data, "United Kingdom", gathered.uk_leagues)
        ELSE gathered.leagues_data

(***************************************************************************)
(* aggregate_uk_leagues taken alone, on the catalogs where each country of *)
(* CountryLists is absent or has one of its lists.                         *)
(***************************************************************************)
League(name, sport) == [name |-> name, sport |-> sport]

\* Per country, the lists it may have; in the order of the keys of the dict.
CountryLists ==
    << [key |-> "England",
        lists |-> {<<League("Premier League", "Soccer"), League("Premiership", "Rugby")>>,
                   <<League("Premier League", "Soccer")>>}],
       [key |-> "France",
        lists |-> {<<League("Ligue 1", "Soccer")>>, <<>>}],
       [key |-> "United Kingdom",
        lists |-> {<<League("British Basketball League", "Basketball")>>, <<>>}],
       [key |-> "Scotland",
        lists |-> {<<League("Scottish Premiership", "Soccer")>>, <<>>}],
       [key |-> "Wales",
        lists |-> {<<League("Cymru Premier", "Soccer")>>}],
       [key |-> "Northern Ireland",
        lists |-> {<<League("NIFL Premiership", "Soccer")>>}] >>

\* The dicts with the keys of a table of lists from position i on.
RECURSIVE DictsOver(_, _)
DictsOver(table, i) ==
    IF i > Len(table) THEN {<<>>}
    ELSE LET rest == DictsOver(table, i + 1)
         IN  rest \cup {<<[key |-> table[i].key, value |-> v]>> \o d :
                           v \in table[i].lists, d \in rest}

AggregateCalls == {[fn |-> "aggregate_uk_leagues", leagues_data |-> d] : d \in DictsOver(CountryLists, 1)}

InitAggregate == Idle /\ call \in AggregateCalls /\ result = Pending /\ frame = NoFrame

ApplyAggregateUkLeagues ==
    /\ call.fn = "aggregate_uk_leagues"
    /\ result = Pending
    /\ result' = [leagues_data |-> aggregate_uk_leagues(call.leagues_data)]
    /\ UNCHANGED <<passVars, call, frame>>

NextAggregate == ApplyAggregateUkLeagues

SpecAggregate == InitAggregate /\ [][NextAggregate]_vars

(***************************************************************************)
(* fetch_football_data.main: the leagues of FOOTBALL_DATA_COVERAGE added   *)
(* to leagues.json where they are missing.                                 *)
(***************************************************************************)
FOOTBALL_DATA_COVERAGE ==
    << [key |-> "Italy",
        value |-> <<[name |-> "Serie A", sport |-> "Soccer", tier |-> 1],
                    [name |-> "Serie B", sport |-> "Soccer", tier |-> 2]>>],
       [key |-> "Netherlands",
        value |-> <<[name |-> "Eredivisie", sport |-> "Soccer", tier |-> 1]>>],
       [key |-> "Denmark",
        value |-> <<[name |-> "Superligaen", sport |-> "Soccer", tier |-> 1]>>],
       [key |-> "Austria",
        value |-> <<[name |-> "Austrian Bundesliga", sport |-> "Soccer", tier |-> 1]>>],
       [key |-> "Greece",
        value |-> <<[name |-> "Super League Greece", sport |-> "Soccer", tier |-> 1]>>],
       [key |-> "Ireland",
        value |-> <<[name |-> "League of Ireland Premier Division", sport |-> "Soccer", tier |-> 1],
                    [name |-> "League of Ireland First Division", sport |-> "Soccer", tier |-> 2]>>],
       [key |-> "Norway",
        value |-> <<[name |-> "Eliteserien", sport |-> "Soccer", tier |-> 1],
                    [name |-> "Norwegian First Division", sport |-> "Soccer", tier |-> 2]>>],
       [key |-> "China",
        value |-> <<[name |-> "Chinese Super League", sport |-> "Soccer", tier |-> 1],
                    [name |-> "Chinese League One", sport |-> "Soccer", tier |-> 2],
                    [name |-> "Chinese Basketball Association", sport |-> "Basketball", tier |-> 1]>>],
       [key |-> "South Korea",
        value |-> <<[name |-> "K League 1", sport |-> "Soccer", tier |-> 1],
                    [name |-> "K League 2", sport |-> "Soccer", tier |-> 2],
                    [name |-> "Korean Basketball League", sport |-> "Basketball", tier |-> 1]>>] >>

missing_countries ==
    <<"Austria", "China", "Denmark", "Greece", "Ireland",
      "Italy", "Netherlands", "Norway", "South Korea">>

\* Every league of the country, whether its name is there already or not.
AllLeagues(covered, existing_names) ==
    [k \in 1..Len(covered) |-> [name |-> covered[k].name, sport |-> covered[k].sport]]

\* Lines 88-94: the leagues of the country whose name is not there yet.
NewLeagues(covered, existing_names) ==
    LET missing == SelectSeq(covered, LAMBDA league : league.name \notin existing_names)
    IN  [k \in 1..Len(missing) |-> [name |-> missing[k].name, sport |-> missing[k].sport]]

\* Lines 81-106: the loop over missing_countries from position i on.
RECURSIVE AddMissingFrom(_, _, _)
AddMissingFrom(leagues_data, added_count, i) ==
    IF i > Len(missing_countries)
    THEN [leagues_data |-> leagues_data, added_count |-> added_count]
    ELSE LET country        == missing_countries[i]
             existing       == IF DictHas(leagues_data, country)
                               THEN DictGet(leagues_data, country) ELSE <<>>
             existing_names == {existing[k].name : k \in 1..Len(existing)}
             new_leagues    == NewLeagues(DictGet(FOOTBALL_DATA_COVERAGE, country),
                                          existing_names)
         IN  IF ~DictHas(FOOTBALL_DATA_COVERAGE, country) \/ new_leagues = <<>>
             THEN AddMissingFrom(leagues_data, added_count, i + 1)
             ELSE AddMissingFrom(DictSet(leagues_data, country, existing \o new_leagues),
                                 added_count + Len(new_leagues), i + 1)

\* Lines 71-109: leagues.json read ({} when it is missing), completed, saved.
football_data_main(file) ==
    LET done == AddMissingFrom(IF file = Missing THEN <<>> ELSE file.leagues, 0, 1)
    IN  [file |-> [leagues |-> done.leagues_data], added_count |-> done.added_count]

(***************************************************************************)
(* main run on a leagues.json, then run again on the file it saved.        *)
(***************************************************************************)
LeagueFileLists ==
    << [key |-> "France",
        lists |-> {<<League("Ligue 1", "Soccer")>>}],
       [key |-> "Italy",
        lists |-> {<<>>,
                   <<League("Serie A", "Football")>>,
                   <<League("Serie B", "Soccer"), League("Coppa Italia", "Soccer")>>,
                   <<League("Serie A", "Soccer"), League("Serie B", "Soccer")>>}],
       [key |-> "China",
        lists |-> {<<League("Chinese Basketball Association", "Basketball"),
                     League("Chinese Super League", "Soccer"),
                     League("Chinese League One", "Soccer")>>,
                   <<League("Chinese League One", "Soccer")>>}],
       [key |-> "Greece",
        lists |-> {<<League("Super League Greece", "Soccer")>>}] >>

LeagueFiles == {Missing} \cup {[leagues |-> d] : d \in DictsOver(LeagueFileLists, 1)}

FootballCalls == {[fn |-> "fetch_football_data.main", file |-> f, run |-> 1] : f \in LeagueFiles}

InitFootball == Idle /\ call \in FootballCalls /\ result = Pending /\ frame = NoFrame

ApplyFootballDataMain ==
    /\ call.fn = "fetch_football_data.main"
    /\ result = Pending
    /\ result' = football_data_main(call.file)
    /\ UNCHANGED <<passVars, call, frame>>

\* The script started a second time: it reads the file the first run saved.
RunFootballDataMainAgain ==
    /\ call.fn = "fetch_football_data.main"
    /\ call.run = 1
    /\ result # Pending
    /\ call' = [fn |-> call.fn, file |-> result.file, run |-> 2, first |-> call.file]
    /\ result' = Pending
    /\ UNCHANGED <<passVars, frame>>

NextFootball == ApplyFootballDataMain \/ RunFootballDataMainAgain

SpecFootball == InitFootball /\ [][NextFootball]_vars

(***************************************************************************)
(* Vocabulary of the properties.                                           *)
(***************************************************************************)
\* The leagues of the catalog in memory, none when the file is missing.
Leagues == IF DOMAIN merged_data = {} THEN <<>> ELSE merged_data.leagues

HasPopularity(league) == "popularity" \in DOMAIN league

\* The leagues the loop has been through.
Processed == {i \in 1..Len(Leagues) : pc \in {"enrich", "done"} /\ i < league_index}

\* The leagues that carry a popularity block.
Blocks == {i \in 1..Len(Leagues) : HasPopularity(Leagues[i])}

NonNegativeMetrics ==
    /\ \A i \in 1..Len(wikipedia_data) : wikipedia_data[i].value.wikipedia_monthly_views >= 0
    /\ \A i \in 1..Len(trends_data) : trends_data[i].value.google_trends_index >= 0

\* Some key of the index equals the canonical name, contains it or is contained
\* in it: the index has a record for the league.
Matches(lookup, normalized) ==
    \E i \in 1..Len(lookup) :
        \/ lookup[i].key = normalized
        \/ IsSubstring(lookup[i].key, normalized)
        \/ IsSubstring(normalized, lookup[i].key)

TierRank(tier) == CASE tier = "D" -> 0 [] tier = "C" -> 1 [] tier = "B" -> 2 [] tier = "A" -> 3

\* The tier of a score on a ladder with the three boundaries lo < mid < hi.
Band(score, lo, mid, hi) ==
    IF score >= hi THEN "A" ELSE IF score >= mid THEN "B" ELSE IF score >= lo THEN "C" ELSE "D"

Applied(fn) == pc = "idle" /\ call.fn = fn /\ result # Pending

\* The function applied and come back without an exception.
Returned(fn) == Applied(fn) /\ "raised" \notin DOMAIN result

\* The keys one raw name writes into an index: its canonical form, and that
\* form without a configured suffix it ends in.
KeysWritten(name) ==
    LET canonical == normalize_league_name(name)
        Stem(j)   == SubSeq(canonical, 1, Len(canonical) - Len(Suffixes[j]))
    IN  {canonical}
            \cup {Strip(Stem(j)) :
                     j \in {k \in 1..Len(Suffixes) :
                               /\ Len(canonical) >= Len(Suffixes[k])
                               /\ Stem(k) \o Suffixes[k] = canonical}}

\* The entries of a source table that write the key, by position.
Writers(data, key) == {j \in 1..Len(data) : key \in KeysWritten(data[j].key)}

SetMax(S) == CHOOSE x \in S : \A y \in S : y <= x
SetMin(S) == CHOOSE x \in S : \A y \in S : x <= y

SuperGreece == <<"s", "u", "p", "e", "r", " ", "g", "r", "e", "e", "c", "e">>

\* null where a list is expected.
IsNull(x) == ToString(x) = ToString(None)

\* The calls out of a function run step by step, so far.
Io == frame.io

\* The requests among them, and the page each one asked for.
GetsOf(io) == {i \in 1..Len(io) : io[i].op = "get"}
PageAsked(io, i) == DictGet(io[i].params, "page")
RateLimited(io, i) == io[i].op = "get" /\ io[i].response.status_code = 429

\* The requests for the page of request i, up to it.
AttemptOf(io, i) ==
    Cardinality({j \in GetsOf(io) : j <= i /\ PageAsked(io, j) = PageAsked(io, i)})

Running(fn) == pc = "idle" /\ call.fn = fn /\ frame # NoFrame

\* The number of leagues over all the countries of a catalog.
RECURSIVE TotalLeagues(_)
TotalLeagues(d) == IF d = <<>> THEN 0 ELSE Len(Head(d).value) + TotalLeagues(Tail(d))

(***************************************************************************)
(* C1.  With non-negative metrics in both source tables, every popularity  *)
(* block of the catalog carries an integer score from 0 to 100, at every   *)
(* point of the pass and after it.                                         *)
(***************************************************************************)
ScoreInRange ==
    NonNegativeMetrics =>
        \A i \in Blocks : Leagues[i].popularity.score \in 0..100

\* A finished pass over non-negative tables that left the top score 100 on
\* one league and a score strictly inside the range on another.
ScoreInRangeWitness ==
    /\ pc = "done"
    /\ NonNegativeMetrics
    /\ \E i \in Blocks : Leagues[i].popularity.score = 100
    /\ \E i \in Blocks : Leagues[i].popularity.score \in 1..99

(***************************************************************************)
(* C2.  In every popularity block the tier is the band of the score on the *)
(* fused ladder (A from 75, B from 50, C from 25, D below), so two blocks  *)
(* with the same score have the same tier.                                 *)
(***************************************************************************)
TierFollowsFusedLadder ==
    /\ \A i \in Blocks :
           LET block == Leagues[i].popularity
           IN  /\ (block.tier = "A") = (block.score >= 75)
               /\ (block.tier = "B") = (block.score >= 50 /\ block.score < 75)
               /\ (block.tier = "C") = (block.score >= 25 /\ block.score < 50)
               /\ (block.tier = "D") = (block.score < 25)
    /\ \A i \in Blocks : \A j \in Blocks :
           Leagues[i].popularity.score = Leagues[j].popularity.score
               => Leagues[i].popularity.tier = Leagues[j].popularity.tier

\* A finished pass with two leagues in different tiers, one of them with a
\* score between 75 and 79, where the two ladders differ.
TierFollowsFusedLadderWitness ==
    /\ pc = "done"
    /\ \E i \in Blocks : \E j \in Blocks :
           /\ Leagues[i].popularity.score \in 75..79
           /\ Leagues[i].popularity.tier = "A"
           /\ Leagues[j].popularity.tier # "A"

(***************************************************************************)
(* C3.  Each ladder is monotone non-decreasing in the score (D < C < B <   *)
(* A) and cuts 0..100 into four non-empty contiguous bands, at 25/50/75    *)
(* for enrich_leagues.calculate_tier and at 40/60/80 for                   *)
(* fetch_popularity.calculate_tier.                                        *)
(***************************************************************************)
LaddersMonotoneFourBands ==
    /\ Applied("calculate_tier") =>
           /\ result.tier = Band(call.score, 25, 50, 75)
           /\ \A lower \in 0..call.score :
                  TierRank(calculate_tier(lower)) <= TierRank(result.tier)
           /\ \A tier \in {"A", "B", "C", "D"} :
                  \E sc \in Scores : calculate_tier(sc) = tier
    /\ Applied("popularity_calculate_tier") =>
           /\ result.tier = Band(call.score, 40, 60, 80)
           /\ \A lower \in 0..call.score :
                  TierRank(popularity_calculate_tier(lower)) <= TierRank(result.tier)
           /\ \A tier \in {"A", "B", "C", "D"} :
                  \E sc \in Scores : popularity_calculate_tier(sc) = tier

\* The fused ladder applied to the boundary score 50, which is a B.
LaddersMonotoneFourBandsWitness ==
    Applied("calculate_tier") /\ call.score = 50 /\ result.tier = "B"

(***************************************************************************)
(* C4.  From a catalog without popularity blocks, a league the loop has    *)
(* been through carries a popularity block exactly when the wikipedia      *)
(* index or the trends index has a record for it; a league no source       *)
(* matched has no block.                                                   *)
(***************************************************************************)
BlockIffSourceMatched ==
    \A i \in Processed :
        HasPopularity(Leagues[i]) =
            (\/ Matches(wiki_lookup, normalize_league_name(Leagues[i].name))
             \/ Matches(trends_lookup, normalize_league_name(Leagues[i].name)))

\* A finished pass with a league that got a block and a league no source
\* matched, which got none, although a source table is not empty.
BlockIffSourceMatchedWitness ==
    /\ pc = "done"
    /\ wiki_lookup # <<>>
    /\ \E i \in Processed : HasPopularity(Leagues[i])
    /\ \E i \in Processed : ~HasPopularity(Leagues[i])

(***************************************************************************)
(* C5, as stated: with non-negative metrics, every popularity block has a  *)
(* score of at least 1.                                                    *)
(***************************************************************************)
BlockScoreAtLeastOne ==
    NonNegativeMetrics =>
        \A i \in Blocks : Leagues[i].popularity.score >= 1

(***************************************************************************)
(* C5, amended.  With non-negative metrics, a popularity block names at    *)
(* least one source and its score is 0 or more; the score is 0 when every  *)
(* sub-score recorded in the block is 0, and only when the wikipedia       *)
(* sub-score is at most 1 and the trends sub-score at most 2.              *)
(***************************************************************************)
ZeroScoreBlockFromZeroSubScores ==
    NonNegativeMetrics =>
        \A i \in Blocks :
            LET block == Leagues[i].popularity
                wiki  == IF "wikipedia_score" \in DOMAIN block
                         THEN block.wikipedia_score ELSE 0
                trend == IF "google_trends_score" \in DOMAIN block
                         THEN block.google_trends_score ELSE 0
            IN  /\ block.sources # <<>>
                /\ block.score >= 0
                /\ (wiki = 0 /\ trend = 0) => block.score = 0
                /\ block.score = 0 => (wiki <= 1 /\ trend <= 2)

\* A finished pass over non-negative tables that left a block with score 0
\* on a league a source matched.
ZeroScoreBlockWitness ==
    /\ pc = "done"
    /\ NonNegativeMetrics
    /\ \E i \in Blocks :
           /\ Leagues[i].popularity.score = 0
           /\ Leagues[i].popularity.sources # <<>>

(***************************************************************************)
(* C6, as stated: when exactly one source is present, the combined score   *)
(* is that source's sub-score.                                             *)
(***************************************************************************)
SingleSourceScoreIsSubScore ==
    Applied("combined_score") =>
        /\ (call.has_wiki /\ ~call.has_trends) => result.score = call.wiki_norm
        /\ (call.has_trends /\ ~call.has_wiki) => result.score = call.trends_norm

(***************************************************************************)
(* C7.  With both sources present the combined score is the truncation of  *)
(* wiki_norm * 0.55 + trends_norm * 0.45, in doubles and in exact          *)
(* arithmetic alike, and lies between the two sub-scores; sub-scores 99    *)
(* and 40 give the score 72 and the tier B.                                *)
(***************************************************************************)
FusedScoreIsWeightedSum ==
    (Applied("combined_score") /\ call.has_wiki /\ call.has_trends) =>
        /\ result.score =
               FTrunc(FAdd(FMul(FloatOfInt(call.wiki_norm), FloatLiteral(55, 100)),
                           FMul(FloatOfInt(call.trends_norm), FloatLiteral(45, 100))))
        /\ result.score = (55 * call.wiki_norm + 45 * call.trends_norm) \div 100
        /\ result.score >= Min2(call.wiki_norm, call.trends_norm)
        /\ result.score <= Max2(call.wiki_norm, call.trends_norm)
        /\ (call.wiki_norm = 99 /\ call.trends_norm = 40) =>
               (result.score = 72 /\ result.tier = "B")

\* The fusion applied to the sub-scores 99 and 40.
FusedScoreIsWeightedSumWitness ==
    /\ Applied("combined_score")
    /\ call.has_wiki /\ call.has_trends
    /\ call.wiki_norm = 99 /\ call.trends_norm = 40
    /\ result.score = 72

DegenerateMaxYieldsZero ==
    /\ pc # "raised"
    /\ \A i \in Processed :
           HasPopularity(Leagues[i]) =>
               LET block == Leagues[i].popularity
               IN  /\ (wiki_max <= 0 /\ "wikipedia_score" \in DOMAIN block)
                       => block.wikipedia_score = 0
                   /\ (trends_max <= 0 /\ "google_trends_score" \in DOMAIN block)
                       => block.google_trends_score = 0

\* A finished pass whose trends maximum is negative and whose wikipedia
\* maximum is 0, over a league both sources matched.
DegenerateMaxYieldsZeroWitness ==
    /\ pc = "done"
    /\ trends_max < 0 /\ wiki_max = 0
    /\ \E i \in Processed :
           /\ HasPopularity(Leagues[i])
           /\ "wikipedia_score" \in DOMAIN Leagues[i].popularity
           /\ "google_trends_score" \in DOMAIN Leagues[i].popularity

(***************************************************************************)
(* C10.  normalize_league_name is idempotent: applied to its own result it *)
(* returns that result.                                                    *)
(***************************************************************************)
NormalizeIdempotent ==
    Applied("normalize_league_name") =>
        normalize_league_name(result.name) = result.name

\* The function applied to "-A_", which it changes to "a".
NormalizeIdempotentWitness ==
    /\ Applied("normalize_league_name")
    /\ call.name = <<"-", "A", "_">>
    /\ result.name = <<"a">>


(***************************************************************************)
(* C11.  get_competition_level applies its rules in priority order on the  *)
(* lower-cased "name competition" text, the first rule with a fragment in  *)
(* the text deciding: World fragments 1, Continental fragments 2, World    *)
(* keywords 1, Continental keywords 2, National keywords 3, otherwise 4.   *)
(* A text with "european" and "championship" and nothing of the World      *)
(* kind is Continental, and the level is always one of 1, 2, 3, 4.         *)
(***************************************************************************)
LevelByFirstMatchingRule ==
    Applied("get_competition_level") =>
        LET text     == Lower(call.event.name) \o <<" ">> \o Lower(call.event.competition)
            rules    == << [fragments |-> WORLD_COMPETITIONS,       level |-> 1],
                           [fragments |-> CONTINENTAL_COMPETITIONS, level |-> 2],
                           [fragments |-> WorldKeywords,            level |-> 1],
                           [fragments |-> ContinentalKeywords,      level |-> 2],
                           [fragments |-> NationalKeywords,         level |-> 3] >>
            Hit(r)   == \E i \in 1..Len(rules[r].fragments) :
                            IsSubstring(rules[r].fragments[i], text)
            matching == {r \in 1..Len(rules) : Hit(r)}
            european == <<"e", "u", "r", "o", "p", "e", "a", "n">>
            championship ==
                <<"c", "h", "a", "m", "p", "i", "o", "n", "s", "h", "i", "p">>
        IN  /\ result.level \in {1, 2, 3, 4}
            /\ matching = {} => result.level = 4
            /\ \A r \in matching :
                   (\A q \in matching : r <= q) => result.level = rules[r].level
            /\ ( /\ IsSubstring(european, text)
                 /\ IsSubstring(championship, text)
                 /\ ~Hit(1) /\ ~Hit(3) ) => result.level = 2

\* "2026 UEFA European Championship" with no competition, classified 2.
LevelByFirstMatchingRuleWitness ==
    /\ Applied("get_competition_level")
    /\ call.event.name = EuropeanChampionship2026
    /\ call.event.competition = <<>>
    /\ result.level = 2


(***************************************************************************)
(* C12.  As stated: after create_lookup, the canonical form of every raw   *)
(* name of the source is a key of the index and maps to that name's own    *)
(* record.                                                                 *)
(***************************************************************************)
CanonicalKeyMapsToOwnRecord ==
    Applied("create_lookup") =>
        \A i \in 1..Len(call.data) :
            LET key == normalize_league_name(call.data[i].key)
            IN  /\ DictHas(result.lookup, key)
                /\ DictGet(result.lookup, key) = call.data[i].value

(***************************************************************************)
(* C12, amended.  After create_lookup, the canonical form of every raw     *)
(* name is a key of the index, and the key maps to the record of the last  *)
(* entry, in source order, that wrote it as its canonical form or as its   *)
(* suffix-stripped alias: the name's own record when no later entry        *)
(* writes the same key.                                                    *)
(***************************************************************************)
CanonicalKeyMapsToLastWriter ==
    Applied("create_lookup") =>
        \A i \in 1..Len(call.data) :
            LET key  == normalize_league_name(call.data[i].key)
                last == SetMax(Writers(call.data, key))
            IN  /\ DictHas(result.lookup, key)
                /\ DictGet(result.lookup, key) = call.data[last].value
                /\ last = i => DictGet(result.lookup, key) = call.data[i].value

\* "B" then "b tour": the key "b" of the first holds the record of the second.
CanonicalKeyMapsToLastWriterWitness ==
    /\ Applied("create_lookup")
    /\ Len(call.data) = 2
    /\ call.data[1].key = <<"B">>
    /\ call.data[2].key = <<"b", " ", "t", "o", "u", "r">>
    /\ DictGet(result.lookup, <<"b">>) = call.data[2].value
    /\ DictGet(result.lookup, <<"b">>) # call.data[1].value

(***************************************************************************)
(* C13.  As stated: a source entry named "Super League Greece" is also     *)
(* reachable by exact lookup under the canonical key "super greece".       *)
(***************************************************************************)
SuperLeagueGreeceUnderSuperGreece ==
    Applied("create_lookup") =>
        \A i \in 1..Len(call.data) :
            call.data[i].key = SuperLeagueGreece =>
                /\ DictHas(result.lookup, SuperGreece)
                /\ DictGet(result.lookup, SuperGreece) = call.data[i].value

(***************************************************************************)
(* C13, amended.  create_lookup inserts an alias only for a canonical form *)
(* that ends in a configured suffix: the keys of the index are exactly the *)
(* canonical forms and the forms with a trailing suffix removed.  "Super   *)
(* Greece League" is reachable under "super greece"; "Super League         *)
(* Greece", whose suffix is in the middle, gets no alias and is reachable  *)
(* only under "super league greece".                                       *)
(***************************************************************************)
AliasOnlyForTrailingSuffix ==
    Applied("create_lookup") =>
        LET names == {call.data[i].key : i \in 1..Len(call.data)}
        IN  /\ DictKeys(result.lookup) = UNION {KeysWritten(n) : n \in names}
            /\ DictHas(result.lookup, SuperGreece) <=> SuperGreeceLeague \in names
            /\ \A i \in 1..Len(call.data) :
                   call.data[i].key = SuperGreeceLeague =>
                       DictGet(result.lookup, SuperGreece) = call.data[i].value

\* A source holding "Super League Greece" alone: one key, no "super greece".
AliasOnlyForTrailingSuffixWitness ==
    /\ Applied("create_lookup")
    /\ Len(call.data) = 1
    /\ call.data[1].key = SuperLeagueGreece
    /\ DictKeys(result.lookup) = {normalize_league_name(SuperLeagueGreece)}
    /\ ~DictHas(result.lookup, SuperGreece)


(***************************************************************************)
(* C14.  For each source index, when the league's canonical name is a key  *)
(* of the index the record used for the source is the one stored under     *)
(* that key, and the partial scan is entered only when the exact lookup    *)
(* finds no key.                                                           *)
(***************************************************************************)
ExactKeyWinsOverPartialScan ==
    Applied("match_league") =>
        LET lookup     == create_lookup(call.data)
            normalized == normalize_league_name(call.name)
            present    == \E i \in 1..Len(lookup) : lookup[i].key = normalized
            stored     == lookup[CHOOSE i \in 1..Len(lookup) : lookup[i].key = normalized].value
        IN  /\ present => /\ result.wiki_data = stored
                          /\ result.season_data_item = stored
            /\ result.wiki_scanned => ~present
            /\ result.season_scanned => ~present

\* "B" against the index of "A-B" then "b tour": the key "b" is found, its
\* record is used, and the earlier key "a b", which contains "b", is not.
ExactKeyWinsOverPartialScanWitness ==
    /\ Applied("match_league")
    /\ call.name = <<"B">>
    /\ Len(call.data) = 2
    /\ call.data[1].key = <<"A", "-", "B">>
    /\ call.data[2].key = <<"b", " ", "t", "o", "u", "r">>
    /\ result.wiki_data = call.data[2].value
    /\ result.season_data_item = call.data[2].value
    /\ ~result.wiki_scanned /\ ~result.season_scanned

(***************************************************************************)
(* C15.  When the exact lookup fails, the partial scan returns the record  *)
(* of the first key, in index insertion order, that is a substring of the  *)
(* target or has the target as a substring; when no key is, the source is  *)
(* absent for the league.                                                  *)
(***************************************************************************)
PartialScanTakesFirstKeyInOrder ==
    Applied("match_league") =>
        LET lookup     == create_lookup(call.data)
            normalized == normalize_league_name(call.name)
            hits       == {i \in 1..Len(lookup) :
                              \/ IsSubstring(lookup[i].key, normalized)
                              \/ IsSubstring(normalized, lookup[i].key)}
            expected   == IF hits = {} THEN None ELSE lookup[SetMin(hits)].value
        IN  normalized \notin DictKeys(lookup) =>
                /\ result.wiki_scanned /\ result.season_scanned
                /\ result.wiki_data = expected
                /\ result.season_data_item = expected

\* "Greece" against the index of "Super Greece League" then "Super League
\* Greece": no key "greece", both names contain it, the first one is taken.
PartialScanTakesFirstKeyInOrderWitness ==
    /\ Applied("match_league")
    /\ call.name = <<"G", "r", "e", "e", "c", "e">>
    /\ Len(call.data) = 2
    /\ call.data[1].key = SuperGreeceLeague
    /\ call.data[2].key = SuperLeagueGreece
    /\ result.wiki_scanned /\ result.season_scanned
    /\ result.wiki_data = call.data[1].value
    /\ result.season_data_item = call.data[1].value
    /\ call.data[1].value # call.data[2].value


(***************************************************************************)
(* C16.  The enrichment pass is idempotent on its own output: run a second *)
(* time on the catalog the first run saved, with the same source tables,   *)
(* it saves a catalog identical to the first run's: the same popularity    *)
(* and season blocks, the same _meta counts, nothing stacked.              *)
(***************************************************************************)
RerunOnOwnOutputIdentical ==
    \A k \in 1..(Len(history) - 1) :
        ( /\ history[k + 1].wikipedia_data = history[k].wikipedia_data
          /\ history[k + 1].trends_data = history[k].trends_data
          /\ history[k + 1].seasons_data = history[k].seasons_data )
            => history[k + 1].output = history[k].output

\* Two saved passes with the same tables over a catalog in which the first
\* had attached a popularity block and a season block.
RerunOnOwnOutputIdenticalWitness ==
    /\ pc = "done"
    /\ Len(history) = 2
    /\ history[2].wikipedia_data = history[1].wikipedia_data
    /\ history[2].trends_data = history[1].trends_data
    /\ history[2].seasons_data = history[1].seasons_data
    /\ history[2].output = persisted
    /\ persisted._meta.leagues_with_popularity >= 1
    /\ persisted._meta.leagues_with_season >= 1
    /\ \E i \in 1..Len(history[1].output.leagues) :
           /\ "popularity" \in DOMAIN history[1].output.leagues[i]
           /\ "season" \in DOMAIN history[1].output.leagues[i]

(***************************************************************************)
(* C17.  As stated: after any sequence of enrichment passes, a league for  *)
(* which the latest pass found no wikipedia and no google_trends candidate *)
(* carries no popularity block, and a league for which it found no seasons *)
(* candidate carries no season block, also when an earlier pass with other *)
(* source tables had attached one.                                         *)
(***************************************************************************)
UnmatchedLeagueCarriesNoBlock ==
    (pc = "done" /\ history # <<>>) =>
        \A i \in 1..Len(persisted.leagues) :
            LET league     == persisted.leagues[i]
                normalized == normalize_league_name(league.name)
            IN  /\ ( /\ ~Matches(wiki_lookup, normalized)
                     /\ ~Matches(trends_lookup, normalized) )
                       => "popularity" \notin DOMAIN league
                /\ ~Matches(seasons_lookup, normalized)
                       => "season" \notin DOMAIN league


(***************************************************************************)
(* C18.  Given provider events with pairwise distinct ids, every event of  *)
(* the unified sequence returned by build_events has an id distinct from   *)
(* the id of every other event of the sequence, whatever the number of     *)
(* UFC events appended.                                                    *)
(***************************************************************************)
UnifiedIdsDistinct ==
    Returned("build_events") =>
        LET given == call.data.events
        IN  (\A i, j \in 1..Len(given) : given[i].id = given[j].id => i = j)
                => \A i, j \in 1..Len(result.events) :
                       result.events[i].id = result.events[j].id => i = j

\* Two provider events and two UFC records in one sequence of four.
UnifiedIdsDistinctWitness ==
    /\ Returned("build_events")
    /\ Len(result.events) = 4
    /\ Cardinality({i \in 1..4 : result.events[i].competitionId = 9999}) = 2
    /\ Cardinality({result.events[i].id : i \in 1..4}) = 4

(***************************************************************************)
(* C19.  build_events gives the k-th UFC record (k = 0, 1, 2, ... in input *)
(* order) the id M + 1000 + k, M being the greatest id among the retained  *)
(* provider events and 0 when there are none: every surrogate id is        *)
(* greater than every id that was there before, at least 5000 when M is    *)
(* 4000.                                                                   *)
(***************************************************************************)
SurrogateIdsFollowMaximum ==
    Returned("build_events") =>
        LET given    == call.data.events
            kept     == {i \in 1..Len(given) :
                            \A c \in 1..Len(call.data.competitions) :
                                call.data.competitions[c].id = given[i].competitionId
                                    => call.data.competitions[c].ageGroup = "Senior"}
            M        == IF kept = {} THEN 0 ELSE SetMax({given[i].id : i \in kept})
            ufc      == IF call.ufc_file = Missing THEN <<>> ELSE call.ufc_file.events
            appended == {j \in 1..Len(result.events) : result.events[j].competitionId = 9999}
        IN  /\ Cardinality(appended) = Len(ufc)
            /\ Len(result.events) = Cardinality(kept) + Len(ufc)
            /\ \A k \in 1..Len(ufc) :
                   \E j \in appended :
                       /\ result.events[j].id = M + 1000 + (k - 1)
                       /\ result.events[j].name = ufc[k].name
                       /\ result.events[j].date = ufc[k].date
            /\ \A j \in appended :
                   /\ \A i \in kept : result.events[j].id > given[i].id
                   /\ M = 4000 => result.events[j].id >= 5000

\* The events 4000 and 4001, the second a youth event left out, and two UFC
\* records: these get 5000 and 5001.
SurrogateIdsFollowMaximumWitness ==
    /\ Returned("build_events")
    /\ {call.data.events[i].id : i \in 1..Len(call.data.events)} = {4000, 4001}
    /\ call.ufc_file # Missing
    /\ Len(call.ufc_file.events) = 2
    /\ {result.events[j].id : j \in 1..Len(result.events)} = {4000, 5000, 5001}

(***************************************************************************)
(* C20.  As stated: the unified sequence holds at most one record per      *)
(* event name; when a provider event and a UFC record have exactly the     *)
(* same name, the first seen is kept and the later one is dropped.         *)
(***************************************************************************)
AtMostOneRecordPerName ==
    Returned("build_events") =>
        \A i, j \in 1..Len(result.events) :
            result.events[i].name = result.events[j].name => i = j


(***************************************************************************)
(* C21.  The unified sequence returned by build_events is sorted ascending *)
(* by date, and events of one date keep their insertion order: provider    *)
(* events in input order, then the UFC records in input order.             *)
(***************************************************************************)
UnifiedSortedByDateStable ==
    Returned("build_events") =>
        LET given   == call.data.events
            ufc     == IF call.ufc_file = Missing THEN <<>> ELSE call.ufc_file.events
            out     == result.events
            Rank(e) == IF e.competitionId = 9999
                       THEN Len(given) + (CHOOSE k \in 1..Len(ufc) : ufc[k].name = e.name)
                       ELSE CHOOSE k \in 1..Len(given) : given[k].id = e.id
        IN  \A i, j \in 1..Len(out) :
                i < j => /\ ~StrLess(out[j].date, out[i].date)
                         /\ out[i].date = out[j].date => Rank(out[i]) < Rank(out[j])

\* The events 5 (10 January) and 4000 (3 January) with the UFC records of
\* 10 January and 3 January: each date has its provider event first.
UnifiedSortedByDateStableWitness ==
    /\ Returned("build_events")
    /\ Len(call.data.events) = 2
    /\ call.data.events[1].id = 5 /\ call.data.events[2].id = 4000
    /\ Len(result.events) = 4
    /\ [i \in 1..4 |-> result.events[i].id] = <<4000, 5001, 5, 5000>>

(***************************************************************************)
(* C22.  Every event of the unified sequence returned by build_events has  *)
(* a locations field that is a sequence, possibly empty, never null and    *)
(* never absent: provider events with or without a location list, UFC      *)
(* records with or without a locations field.                              *)
(***************************************************************************)
LocationsAlwaysSequence ==
    Returned("build_events") =>
        \A i \in 1..Len(result.events) :
            /\ "locations" \in DOMAIN result.events[i]
            /\ ~IsNull(result.events[i].locations)
            /\ DOMAIN result.events[i].locations = 1..Len(result.events[i].locations)

\* A provider event with a location list and one without, a UFC record with
\* a locations field and one without, all four in the returned sequence.
LocationsAlwaysSequenceWitness ==
    /\ Returned("build_events")
    /\ Len(result.events) = 4
    /\ \E i \in 1..Len(call.data.events) : "location" \in DOMAIN call.data.events[i]
    /\ \E i \in 1..Len(call.data.events) : "location" \notin DOMAIN call.data.events[i]
    /\ \E k \in 1..Len(call.ufc_file.events) : "locations" \in DOMAIN call.ufc_file.events[k]
    /\ \E k \in 1..Len(call.ufc_file.events) : "locations" \notin DOMAIN call.ufc_file.events[k]
    /\ \E i \in 1..4 : result.events[i].locations = <<>>
    /\ \E i \in 1..4 : result.events[i].locations # <<>>


(***************************************************************************)
(* C23.  The enrichment pass persists the catalog exactly once, and only   *)
(* after every league has been processed and the metadata updated; a pass  *)
(* that stops before completing leaves the persisted catalog exactly as it *)
(* was before the pass.                                                    *)
(***************************************************************************)
PersistedOnceAfterFullPass ==
    [][ /\ persisted' # persisted => history' # history
        /\ history' # history =>
               /\ history = <<>> /\ Len(history') = 1
               /\ pc = "enrich" /\ pc' = "done"
               /\ league_index > Len(merged_data.leagues)
               /\ "_meta" \in DOMAIN merged_data'
               /\ merged_data'.leagues = merged_data.leagues
               /\ persisted' = merged_data'
        /\ pc' \in {"enrich", "raised"} => persisted' = persisted /\ history' = <<>>
        /\ pc = "done" => UNCHANGED vars ]_vars

\* A pass over two leagues completed and saved, the metadata in the file.
PersistedOnceAfterFullPassWitness ==
    /\ pc = "done"
    /\ Len(history) = 1
    /\ persisted = merged_data
    /\ Len(persisted.leagues) = 2
    /\ league_index = 3
    /\ "_meta" \in DOMAIN persisted
    /\ persisted._meta.leagues_with_popularity = enriched_count


\* C24. fetch_ufc_events returns at most one record per event name.  The
\* record kept for a name is the one made from the first entry of that name
\* that the function reads (the calendar before the detailed events), with
\* the fields that entry gave it; its locations alone may come from
\* elsewhere: when a later detailed entry of the name carries a non-empty
\* location list they are the locations of such an entry, and otherwise they
\* are what the first entry gave (a list of its own, or no locations field).
UfcOnePerNameFirstSeen ==
    Returned("fetch_ufc_events") =>
        LET out  == result.events
            json == call.response.json
            cal  == IF "leagues" \in DOMAIN json THEN json.leagues[1].calendar ELSE <<>>
            det  == json.events
            IsCal(p)   == p <= Len(cal)
            LabelAt(p) == IF IsCal(p) THEN cal[p].label ELSE det[p - Len(cal)].name
            StartAt(p) == IF IsCal(p) THEN cal[p].startDate ELSE det[p - Len(cal)].date
            EndAt(p)   == IF IsCal(p) /\ Get(cal[p], "endDate", <<>>) # <<>>
                          THEN cal[p].endDate ELSE StartAt(p)
            OwnAt(p)   == IF IsCal(p) THEN <<>>
                          ELSE VenueLocations(Get(det[p - Len(cal)], "venues", <<>>), 1)
            Readable   == {p \in 1..(Len(cal) + Len(det)) : IsIsoDate(StartAt(p))}
            FirstOf(n) == SetMin({p \in Readable : Year2026(LabelAt(p)) = n})
            LaterOf(n) == {p \in (Len(cal) + 1)..(Len(cal) + Len(det)) :
                              /\ p > FirstOf(n)
                              /\ Year2026(LabelAt(p)) = n
                              /\ OwnAt(p) # <<>>}
        IN  /\ \A i, j \in 1..Len(out) : out[i].name = out[j].name => i = j
            /\ \A p \in Readable : \E i \in 1..Len(out) : out[i].name = Year2026(LabelAt(p))
            /\ \A i \in 1..Len(out) :
                   /\ \E p \in Readable : Year2026(LabelAt(p)) = out[i].name
                   /\ LET f == FirstOf(out[i].name)
                      IN  /\ [k \in DOMAIN out[i] \ {"locations"} |-> out[i][k]]
                                 = UfcEvent(LabelAt(f), DateText(StartAt(f)), DateText(EndAt(f)))
                          /\ IF LaterOf(out[i].name) # {}
                             THEN /\ "locations" \in DOMAIN out[i]
                                  /\ \E p \in LaterOf(out[i].name) : out[i].locations = OwnAt(p)
                             ELSE IF OwnAt(f) # <<>>
                             THEN "locations" \in DOMAIN out[i] /\ out[i].locations = OwnAt(f)
                             ELSE "locations" \notin DOMAIN out[i]

\* Two calendar entries named UFC 300 and two detailed events of the same
\* name, both with a city: one record, the first calendar entry's, with the
\* locations of a detailed event.
UfcOnePerNameFirstSeenWitness ==
    /\ Returned("fetch_ufc_events")
    /\ call.response.status = 200
    /\ "leagues" \in DOMAIN call.response.json
    /\ call.response.json.leagues[1].calendar = <<CalendarPool[1], CalendarPool[2]>>
    /\ call.response.json.events = <<DetailedPool[1], DetailedPool[2]>>
    /\ Len(result.events) = 1
    /\ result.events[1].name = Year2026(Label300)
    /\ result.events[1].dateTo = DateText(CalendarPool[1].endDate)
    /\ result.events[1].locations = <<[country |-> "USA", city |-> "Newark"]>>


\* C25, as stated: every backoff wait of fetch_paginated is a wait before a
\* retry, that is, once the function has returned, each sleep of 2, 4 or 8
\* seconds is followed by another request for the same page.
EveryBackoffBeforeRetry ==
    (Running("fetch_paginated") /\ frame.pc = "done") =>
        \A i \in 1..Len(Io) :
            Io[i].op = "sleep" =>
                /\ i < Len(Io)
                /\ Io[i + 1].op = "get"
                /\ PageAsked(Io, i + 1) = PageAsked(Io, i - 1)

\* C25, amended.  fetch_paginated sends at most MAX_RETRIES requests for a
\* page.  The first, second and third 429 answers of a page are followed by
\* waits of 2, 4 and 8 seconds, and nothing else is.  The waits of 2 and 4
\* seconds are followed by another request for the same page; the wait of 8
\* seconds is followed by no request at all.  Two requests in a row ask for
\* the same page or for the next one, and the next one only when the answer
\* to the first was a 200, never a 429.
BoundedRetriesWithBackoff ==
    Running("fetch_paginated") =>
        /\ \A i \in GetsOf(Io) : AttemptOf(Io, i) <= MAX_RETRIES
        /\ \A i \in 1..Len(Io) :
               /\ (RateLimited(Io, i) /\ (i < Len(Io) \/ frame.pc # "sleep")) =>
                      /\ i < Len(Io)
                      /\ Io[i + 1].op = "sleep"
                      /\ Io[i + 1].seconds = 2 * (2 ^ (AttemptOf(Io, i) - 1))
                      /\ Io[i + 1].seconds \in {2, 4, 8}
               /\ Io[i].op = "sleep" =>
                      /\ i > 1 /\ RateLimited(Io, i - 1)
                      /\ (Io[i].seconds \in {2, 4} /\ (i < Len(Io) \/ frame.pc # "get")) =>
                             /\ i < Len(Io)
                             /\ Io[i + 1].op = "get"
                             /\ PageAsked(Io, i + 1) = PageAsked(Io, i - 1)
                      /\ Io[i].seconds = 8 =>
                             /\ i = Len(Io)
                             /\ frame.pc \in {"check", "done"}
        /\ \A i, j \in GetsOf(Io) :
               (i < j /\ \A k \in GetsOf(Io) : ~(i < k /\ k < j)) =>
                   \/ PageAsked(Io, j) = PageAsked(Io, i)
                   \/ /\ PageAsked(Io, j) = PageAsked(Io, i) + 1
                      /\ Io[i].response.status_code = 200
        /\ (frame.pc = "get" /\ Io # <<>>) =>
               \/ RateLimited(Io, Len(Io) - 1)
               \/ Io[Len(Io)].op = "pause" /\ Io[Len(Io) - 1].response.status_code = 200

\* A full first page, then the second page answering 429 three times: three
\* requests for it, waits of 2, 4 and 8 seconds, the return after the last.
BoundedRetriesWithBackoffWitness ==
    /\ Running("fetch_paginated")
    /\ frame.pc = "done"
    /\ Len(Io) = 8
    /\ Io[1].op = "get" /\ Io[1].response.status_code = 200
    /\ Io[2].op = "pause"
    /\ \A i \in {3, 5, 7} : RateLimited(Io, i) /\ PageAsked(Io, i) = 2
    /\ Io[4].seconds = 2 /\ Io[6].seconds = 4 /\ Io[8].seconds = 8
    /\ Len(result.value) = PageSize


\* C30. When the answer that ends the retries of a page is not a 200 (a 429
\* on the last retry, or any other status on any attempt), fetch_paginated
\* sends no further request and returns, without raising, the items of the
\* pages answered with a 200 before it, in order, and nothing else: the
\* returned value is the list alone, with no mark of the failure.
TruncatedResultOnFailure ==
    Running("fetch_paginated") =>
        LET Failed(i) == /\ Io[i].op = "get"
                         /\ Io[i].response.status_code # 200
                         /\ \/ Io[i].response.status_code # 429
                            \/ AttemptOf(Io, i) = MAX_RETRIES
            Fetched(n) == {i \in GetsOf(Io) : i <= n /\ Io[i].response.status_code = 200}
            ItemsUpTo[n \in 0..Len(Io)] ==
                IF n = 0 THEN <<>>
                ELSE ItemsUpTo[n - 1]
                         \o (IF n \in Fetched(n) THEN ItemsOf(Io[n].response.json) ELSE <<>>)
        IN  \A i \in 1..Len(Io) :
                Failed(i) =>
                    /\ \A j \in GetsOf(Io) : j <= i
                    /\ frame.pc \in {"sleep", "check", "done"}
                    /\ frame.all_items = ItemsUpTo[i]
                    /\ frame.pc = "done" =>
                           /\ result = [value |-> ItemsUpTo[i]]
                           /\ Len(result.value) = PageSize * Cardinality(Fetched(i))

\* A full first page, then a 500 on the second: the hundred items of the
\* first page are returned.
TruncatedResultOnFailureWitness ==
    /\ Running("fetch_paginated")
    /\ frame.pc = "done"
    /\ Len(Io) = 3
    /\ Io[1].response.status_code = 200
    /\ Io[3].op = "get" /\ Io[3].response.status_code = 500 /\ PageAsked(Io, 3) = 2
    /\ result = [value |-> PageItems(1, PageSize)]


AggregateKeepsEveryLeague ==
    Returned("aggregate_uk_leagues") =>
        LET before == call.leagues_data
            after  == result.leagues_data
            Uk     == {UK_COUNTRIES[i] : i \in 1..Len(UK_COUNTRIES)}
        IN  /\ DictKeys(after) \cap Uk = {}
            /\ \A k \in DictKeys(before) \ (Uk \cup {"United Kingdom"}) :
                   DictHas(after, k) /\ DictGet(after, k) = DictGet(before, k)
            /\ TotalLeagues(after) = TotalLeagues(before)


\* C29. A run of fetch_football_data.main keeps every country of the file
\* with the leagues it had, unchanged and in place, in front of what it
\* adds; it adds to a country no league whose name the country already had,
\* and none twice; it counts what it adds.  A second run, on the file the
\* first one saved, adds zero leagues and saves the same file.
AddMissingLeaguesIdempotent ==
    Returned("fetch_football_data.main") =>
        LET before == IF call.file = Missing THEN <<>> ELSE call.file.leagues
            after  == result.file.leagues
            Had(c) == IF DictHas(before, c) THEN DictGet(before, c) ELSE <<>>
            Added(c) == SubSeq(DictGet(after, c), Len(Had(c)) + 1, Len(DictGet(after, c)))
        IN  /\ Len(after) >= Len(before)
            /\ \A i \in 1..Len(before) :
                   /\ after[i].key = before[i].key
                   /\ Len(after[i].value) >= Len(before[i].value)
                   /\ SubSeq(after[i].value, 1, Len(before[i].value)) = before[i].value
            /\ \A c \in DictKeys(after) :
                   /\ \A k \in 1..Len(Added(c)) :
                          /\ \A j \in 1..Len(Had(c)) : Had(c)[j].name # Added(c)[k].name
                          /\ \A j \in 1..Len(Added(c)) : Added(c)[j].name = Added(c)[k].name => j = k
            /\ result.added_count = TotalLeagues(after) - TotalLeagues(before)
            /\ call.run = 2 => (result.added_count = 0 /\ result.file = call.file)

\* A file with Italy holding Serie A alone: the first run adds Serie B (and
\* the leagues of the countries the file lacks), the second run adds nothing.
AddMissingLeaguesIdempotentWitness ==
    /\ Returned("fetch_football_data.main")
    /\ call.run = 2
    /\ call.first = [leagues |-> <<[key |-> "Italy", value |-> <<League("Serie A", "Football")>>]>>]
    /\ DictGet(call.file.leagues, "Italy")
           = <<League("Serie A", "Football"), League("Serie B", "Soccer")>>
    /\ TotalLeagues(call.file.leagues) = 16
    /\ result.added_count = 0
    /\ result.file = call.file


\* C27. In the partial scan the empty string matches everything.  A league
\* whose canonical name is empty, looked up in a non-empty index that has no
\* empty key, gets the record of the first key of the index.  And when an
\* index has the empty key, a league whose canonical name is no key of the
\* index gets the record of the empty key, unless a key before it in the
\* index contains the name or is contained in it.
EmptyStringMatchesEverything ==
    Applied("match_league") =>
        LET lookup     == create_lookup(call.data)
            normalized == normalize_league_name(call.name)
            Related(i) == \/ \E a \in 1..(Len(normalized) + 1), b \in 0..Len(normalized) :
                                 SubSeq(normalized, a, b) = lookup[i].key
                          \/ \E a \in 1..(Len(lookup[i].key) + 1), b \in 0..Len(lookup[i].key) :
                                 SubSeq(lookup[i].key, a, b) = normalized
        IN  /\ (normalized = <<>> /\ lookup # <<>> /\ \A i \in 1..Len(lookup) : lookup[i].key # <<>>) =>
                   /\ result.wiki_scanned /\ result.season_scanned
                   /\ result.wiki_data = lookup[1].value
                   /\ result.season_data_item = lookup[1].value
            /\ \A i \in 1..Len(lookup) :
                   (/\ lookup[i].key = <<>>
                    /\ \A j \in 1..Len(lookup) : lookup[j].key # normalized
                    /\ \A j \in 1..(i - 1) : ~Related(j)) =>
                       /\ result.wiki_scanned /\ result.season_scanned
                       /\ result.wiki_data = lookup[i].value
                       /\ result.season_data_item = lookup[i].value

\* The index of the entries "B" and "-", in that order, and the league "c":
\* no key is "c", "b" is neither in "c" nor around it, and the league gets
\* the record of "-", whose key is the empty string.
EmptyStringMatchesEverythingWitness ==
    /\ Applied("match_league")
    /\ call.data = <<Entry(IndexNames[3], IndexRecord(3)), Entry(IndexNames[7], IndexRecord(7))>>
    /\ call.name = <<"c">>
    /\ create_lookup(call.data)[2].key = <<>>
    /\ result.wiki_data = IndexRecord(7)
    /\ result.season_data_item = IndexRecord(7)

=============================================================================
